---- MODULE Spec2Model ----
(***************************************************************************)
(* A model of `turbo run`: argument parsing, target resolution, task graph *)
(* construction, the bounded-concurrency walk of the task graph, the       *)
(* per-task visitor (execContext.exec), the process manager, the local     *)
(* cache as seen by the visitor, and the run state ledger.                 *)
(***************************************************************************)
EXTENDS Integers, Sequences, FiniteSets, TLC

\* ------------------------------------------------------------------ bounds
\* --concurrency=N is explored for N in 0..MaxConcurrencyFlag
MaxConcurrencyFlag == 1
\* a child process exits with a code in 0..MaxExitCode
MaxExitCode == 1
\* a command line carries at most MaxFlags flags
MaxFlags == 2

\* ------------------------------------------------------- program constants
\* getDefaultRunOptions: concurrency: 10
DefaultConcurrency == 10

\* ---------------------------------------------------------------- universe
\* The workspaces of the monorepo under test; "app" depends on "lib".
Pkgs == {"app", "lib", "web"}

InternalDeps == [p \in Pkgs |-> IF p = "app" THEN {"lib"} ELSE {}]

TaskNames == {"build", "test", "dev"}

\* A task id "package#task" is the pair <<package, task>>.
TaskIds == Pkgs \X TaskNames

GetTaskId(pkg, task) == <<pkg, task>>

\* A pipeline key or a dependsOn entry: "task", "^task", "$VAR" or
\* "package#task", kept as its prefix, its package part and its task part.
Ref(prefix, pkg, task) == [prefix |-> prefix, pkg |-> pkg, task |-> task]

TOPOLOGICAL_PIPELINE_DELIMITER == "^"

ENV_PIPELINE_DELIMITER == "$"

\* util.IsPackageTask: the string contains the "#" delimiter
IsPackageTask(r) == r.pkg # ""

\* Pipeline fixtures. Cache is "nil" when the entry does not set it.
Entry(dependsOn, persistent, cache) ==
    [DependsOn |-> dependsOn, Persistent |-> persistent, Cache |-> cache]

Key(task) == Ref("", "", task)

\* build depends on ^build, test on build and on an env var; test is not cached
PipelineTopo ==
    (Key("build") :> Entry({Ref("^", "", "build")}, FALSE, "nil")) @@
    (Key("test") :> Entry({Ref("", "", "build"), Ref("$", "", "CI")}, FALSE, "false"))

\* independent tasks, and a package-task entry with a package-task dependency
PipelinePkgTask ==
    (Key("build") :> Entry({}, FALSE, "nil")) @@
    (Key("test") :> Entry({}, FALSE, "nil")) @@
    (Ref("", "app", "test") :> Entry({Ref("", "web", "build")}, FALSE, "nil"))

\* build depends on the persistent task dev of the workspace's dependencies
PipelinePersistentTopo ==
    (Key("dev") :> Entry({}, TRUE, "nil")) @@
    (Key("build") :> Entry({Ref("^", "", "dev")}, FALSE, "nil"))

\* build depends on the persistent task dev of the same workspace
PipelinePersistentSame ==
    (Key("dev") :> Entry({}, TRUE, "nil")) @@
    (Key("build") :> Entry({Ref("", "", "dev")}, FALSE, "nil"))

Pipelines ==
    {PipelineTopo, PipelinePkgTask, PipelinePersistentTopo, PipelinePersistentSame}

\* The scripts of each package.json that the runs are tried on.
AllScripts == [p \in Pkgs |-> TaskNames]

ScriptFixtures ==
    { AllScripts,
      [AllScripts EXCEPT !["web"] = {"build"}, !["lib"] = {"build"}],
      [AllScripts EXCEPT !["lib"] = {"build", "test"}],
      [AllScripts EXCEPT !["web"] = {}] }

\* The repositories the runs are tried on: a pipeline and the scripts.
Repo(pipe, scr) == [pipeline |-> pipe, scripts |-> scr]

Repos ==
    { Repo(PipelineTopo, [AllScripts EXCEPT !["web"] = {"build"}, !["lib"] = {"build"}]),
      Repo(PipelinePkgTask, [AllScripts EXCEPT !["web"] = {}]),
      Repo(PipelinePkgTask, [AllScripts EXCEPT !["lib"] = {}]),
      Repo(PipelinePersistentTopo, AllScripts),
      Repo(PipelinePersistentTopo, [AllScripts EXCEPT !["lib"] = {"build", "test"}]),
      Repo(PipelinePersistentSame, AllScripts) }

\* The task arguments of the command lines that are tried ("lint" is in no
\* pipeline).
TargetArgs ==
    { <<"build">>, <<"test">>, <<"dev">>, <<"build", "lint">>, <<"lint">>, <<>> }

ConcurrencyFlags == {<<>>} \cup {<<n>> : n \in 0..MaxConcurrencyFlag}

FlagNames == {"--continue", "--parallel", "--force", "--no-cache"}

CommandLines ==
    { c \in [ args : TargetArgs,
              flags : SUBSET FlagNames,
              concurrency : ConcurrencyFlags ] :
        Cardinality(c.flags) + Len(c.concurrency) <= MaxFlags }

\* ------------------------------------------------------------ parseRunArgs
\* the --concurrency case of parseRunArgs: an error unless N >= 1
parseConcurrency(flag) ==
    IF flag = <<>>
    THEN [err |-> FALSE, concurrency |-> DefaultConcurrency]
    ELSE IF flag[1] >= 1
         THEN [err |-> FALSE, concurrency |-> flag[1]]
         ELSE [err |-> TRUE, concurrency |-> DefaultConcurrency]

\* flags.Parse of Run, a flag set in which no flag is defined: an error when
\* the command line begins with a flag. The command lines of the model have
\* their targets first and their flags after them, so a command line begins
\* with a flag when it has flags and no target.
flagsParse(c) ==
    [ err |-> Len(c.args) = 0 /\ (c.flags # {} \/ c.concurrency # <<>>) ]

\* parseRunArgs: the run options of a command line, or an error; an empty
\* command line is the error "At least one task must be specified."
parseRunArgs(c) ==
    [ err |-> \/ Len(c.args) + Cardinality(c.flags) + Len(c.concurrency) = 0
              \/ parseConcurrency(c.concurrency).err,
      bail |-> "--continue" \notin c.flags,
      parallel |-> "--parallel" \in c.flags,
      concurrency |-> parseConcurrency(c.concurrency).concurrency,
      forceExecution |-> "--force" \in c.flags,
      cache |-> "--no-cache" \notin c.flags ]

NoOptions ==
    [ err |-> TRUE, bail |-> TRUE, parallel |-> FALSE,
      concurrency |-> DefaultConcurrency, forceExecution |-> FALSE, cache |-> TRUE ]

\* ------------------------------------------------- getTargetsFromArguments
\* getTargetsFromArguments failing only when no argument is in the pipeline
getTargetsFromArgumentsAnyFound(arguments, pipe) ==
    LET names == {arguments[i] : i \in 1..Len(arguments)}
        found(arg) == \E k \in DOMAIN pipe : k = [prefix |-> "", pkg |-> "", task |-> arg]
    IN IF names # {} /\ \A arg \in names : ~found(arg)
       THEN [err |-> TRUE, targets |-> {}]
       ELSE [err |-> FALSE, targets |-> {arg \in names : found(arg)}]

\* every non-flag argument must be a key of the pipeline
getTargetsFromArguments(arguments, pipe) ==
    LET names == {arguments[i] : i \in 1..Len(arguments)}
        found(arg) == \E k \in DOMAIN pipe : k = Key(arg)
    IN IF \E arg \in names : ~found(arg)
       THEN [err |-> TRUE, targets |-> {}]
       ELSE [err |-> FALSE, targets |-> names]

\* ---------------------------------------------------------- buildTaskGraph
\* the dependsOn entries of a pipeline entry that are not "$ENV" entries
TaskRefs(pipe, k) ==
    {r \in pipe[k].DependsOn : r.prefix # ENV_PIPELINE_DELIMITER}

\* The core.Task that buildTaskGraph adds for pipeline key k.
TaskOf(pipe, k) ==
    LET refs == IF IsPackageTask(k)
                THEN {r \in TaskRefs(pipe, k) : ~IsPackageTask(r)}
                ELSE TaskRefs(pipe, k)
    IN [ Name |-> k.task,
         TopoDeps |-> {r.task : r \in {x \in refs : x.prefix = TOPOLOGICAL_PIPELINE_DELIMITER}},
         Deps |-> {Ref("", r.pkg, r.task) : r \in {x \in refs : x.prefix # TOPOLOGICAL_PIPELINE_DELIMITER}} ]

\* engine.AddDep(from, taskName) for the package-task entries of the pipeline
PackageTaskDeps(pipe) ==
    { <<GetTaskId(r.pkg, r.task), GetTaskId(k.pkg, k.task)>> :
        <<k, r>> \in { kr \in (DOMAIN pipe) \X UNION {pipe[x].DependsOn : x \in DOMAIN pipe} :
                        /\ IsPackageTask(kr[1])
                        /\ kr[2] \in TaskRefs(pipe, kr[1])
                        /\ IsPackageTask(kr[2]) } }

\* engine.AddTask is keyed by task name: when several pipeline keys have the
\* same name the last one added wins, and the pipeline map is ranged over in
\* an unspecified order.
EngineTasks(pipe) ==
    LET names == {k.task : k \in DOMAIN pipe}
    IN { f \in [names -> {TaskOf(pipe, k) : k \in DOMAIN pipe}] :
           \A n \in names : \E k \in DOMAIN pipe : k.task = n /\ f[n] = TaskOf(pipe, k) }

\* -------------------------------------------------- engine.Prepare (graph)
\* The definition exec resolves for a task id: the "package#task" entry of
\* the pipeline, else the plain "task" entry.
HasDefinition(pipe, id) ==
    Ref("", id[1], id[2]) \in DOMAIN pipe \/ Key(id[2]) \in DOMAIN pipe

DefinitionOf(pipe, id) ==
    IF Ref("", id[1], id[2]) \in DOMAIN pipe
    THEN pipe[Ref("", id[1], id[2])]
    ELSE pipe[Key(id[2])]

\* runOperation: with --parallel every edge of the workspace graph that does
\* not point at the root node is removed before the task graph is built
TopologicalGraph(o) ==
    IF o.parallel THEN [p \in Pkgs |-> {}] ELSE InternalDeps

RECURSIVE Reachable(_, _, _)
Reachable(succ, frontier, seen) ==
    IF frontier \subseteq seen
    THEN seen
    ELSE Reachable(succ, UNION {succ[x] : x \in frontier \ seen}, seen \cup frontier)

\* the workspaces a workspace depends on, transitively
TransitiveDeps(topo, p) == Reachable(topo, topo[p], {})

\* The tasks a task node depends on: same-package tasks, the task of every
\* workspace dependency for "^task", and package-task dependencies.
NodeDeps(tasks, ptDeps, topo, id) ==
    IF id[2] \notin DOMAIN tasks
    THEN {}
    ELSE LET task == tasks[id[2]]
         IN {GetTaskId(IF d.pkg = "" THEN id[1] ELSE d.pkg, d.task) : d \in task.Deps}
            \cup {GetTaskId(q, n) : q \in TransitiveDeps(topo, id[1]), n \in task.TopoDeps}
            \cup {e[1] : e \in {x \in ptDeps : x[2] = id}}

\* a node is materialized unless it has neither a definition nor a script
Materialized(pipe, scr, id) ==
    HasDefinition(pipe, id) \/ (id[1] \in Pkgs /\ id[2] \in scr[id[1]])

\* the rows of an acyclic relation never reach themselves
HasCycle(nodes, edges) ==
    LET succ == [n \in nodes |-> {e[2] : e \in {x \in edges : x[1] = n}}]
    IN \E n \in nodes : n \in Reachable(succ, succ[n], {})

\* <<persistent task, dependent>> for every edge onto a persistent task,
\* implemented by its package or not
PersistentViolationsUnimplemented(pipe, scr, edges) ==
    { <<e[2], e[1]>> : e \in
        { x \in edges : /\ HasDefinition(pipe, x[2])
                        /\ DefinitionOf(pipe, x[2]).Persistent } }

\* <<persistent task, dependent>> for every edge onto an implemented
\* persistent task
PersistentViolations(pipe, scr, edges) ==
    { <<e[2], e[1]>> : e \in
        { x \in edges : /\ HasDefinition(pipe, x[2])
                        /\ DefinitionOf(pipe, x[2]).Persistent
                        /\ x[2][2] \in scr[x[2][1]] } }

\* engine.Prepare: the task graph of the targets in the packages in scope,
\* or the error that makes graph preparation fail.
Prepare(tasks, ptDeps, topo, pipe, scr, packages, taskNames) ==
    LET roots == {id \in packages \X taskNames : Materialized(pipe, scr, id)}
        allIds == (Pkgs \X (TaskNames \cup DOMAIN tasks))
        succ == [id \in allIds |->
                    {d \in NodeDeps(tasks, ptDeps, topo, id) : Materialized(pipe, scr, d)}]
        nodes == Reachable(succ, roots, {})
        edges == {e \in nodes \X nodes : e[2] \in succ[e[1]]}
        undefined == {id \in nodes : ~HasDefinition(pipe, id)}
        persistent == PersistentViolations(pipe, scr, edges)
    IN [ err |-> IF undefined # {} THEN "missing"
                 ELSE IF HasCycle(nodes, edges) THEN "cycle"
                 ELSE IF persistent # {} THEN "persistent"
                 ELSE "none",
         pairs |-> persistent,
         nodes |-> nodes,
         edges |-> edges ]

\* -------------------------------------------------------------- run state
RunStatuses == {"none", "building", "built", "cached", "buildFailed"}

NewRunState ==
    [ state |-> [id \in TaskIds |-> "none"],
      Success |-> 0, Failure |-> 0, Cached |-> 0, Attempted |-> 0 ]

\* RunState.add: record the status of the label and count a terminal event
add(r, label, status) ==
    [ state |-> [r.state EXCEPT ![label] = status],
      Success |-> IF status = "built" THEN r.Success + 1 ELSE r.Success,
      Failure |-> IF status = "buildFailed" THEN r.Failure + 1 ELSE r.Failure,
      Cached |-> IF status = "cached" THEN r.Cached + 1 ELSE r.Cached,
      Attempted |-> IF status \in {"built", "cached", "buildFailed"}
                    THEN r.Attempted + 1 ELSE r.Attempted ]

\* RunState.Run: the task is recorded as building
RunStateRun(r, label) == add(r, label, "building")

\* ------------------------------------------------ the local cache: paths
\* A path is the sequence of its segments. The packages live under the
\* repository root, which is the working directory of the run.
Cwd == << >>

\* pack.Dir of the package whose outputs are cached
PackDir == <<"app">>

\* the directories Put and Fetch are anchored at
Anchors == {PackDir, Cwd}

\* the output paths of the package, relative to the anchor
RelPaths == { <<"dist">>, <<"dist", "out">>, <<"empty">>, <<"log">>, <<"link">> }

\* path/filepath.Join
Join(a, r) == a \o r

\* path/filepath.Rel(target, file) for a file under target
Rel(target, file) == SubSeq(file, Len(target) + 1, Len(file))

\* the directories above a relative path
Parents(r) == {SubSeq(r, 1, n) : n \in 1..(Len(r) - 1)}

DiskPaths == {Join(a, r) : a \in Anchors, r \in RelPaths}

\* the hashes the cache is keyed by
CacheKeys == {"k1", "k2"}

\* the contents a regular file can have
Bodies == {"v1", "v2"}

\* What is at a path: nothing, a directory, a regular file with its body or
\* a symlink with its link name.
Absent == [kind |-> "none", body |-> ""]

Directory == [kind |-> "dir", body |-> ""]

RegularFile(b) == [kind |-> "file", body |-> b]

Symlink(linkname) == [kind |-> "symlink", body |-> linkname]

Entries ==
    {Absent, Directory, Symlink("log")} \cup {RegularFile(b) : b \in Bodies}

\* The output trees a task leaves in its package: a directory with a file, an
\* empty directory, the log file and a symlink to the log file.
OutputTrees ==
    { t \in [RelPaths -> Entries] :
        /\ t[<<"dist">>] \in {Absent, Directory}
        /\ t[<<"dist", "out">>] \in {Absent} \cup {RegularFile(b) : b \in Bodies}
        /\ t[<<"dist", "out">>] # Absent => t[<<"dist">>] = Directory
        /\ t[<<"empty">>] \in {Absent, Directory}
        /\ t[<<"log">>] \in {Absent, RegularFile("v1")}
        /\ t[<<"link">>] \in {Absent, Symlink("log")}
        /\ t[<<"link">>] # Absent => t[<<"log">>] # Absent }

\* the working tree with the outputs of the package in place
DiskOf(tree) ==
    [p \in DiskPaths |->
        IF Len(p) > Len(PackDir) /\ SubSeq(p, 1, Len(PackDir)) = PackDir
        THEN tree[Rel(PackDir, p)] ELSE Absent]

EmptyCache == [k \in CacheKeys |-> [r \in RelPaths |-> Absent]]

\* ------------------------------------------------- cache archives: names
\* An entry name is the sequence of its characters.
NameChars == {"a", ".", "/"}

\* the names given to checkName have at most MaxNameLen characters
MaxNameLen == 6

NamesOfLen(n) == [1..n -> NameChars]

EntryNames == UNION {NamesOfLen(n) : n \in 0..MaxNameLen}

\* strings.HasPrefix, strings.HasSuffix, strings.Contains
HasPrefix(s, p) == Len(p) <= Len(s) /\ SubSeq(s, 1, Len(p)) = p

HasSuffix(s, p) == Len(p) <= Len(s) /\ SubSeq(s, Len(s) - Len(p) + 1, Len(s)) = p

Contains(s, p) ==
    \E i \in 1..(Len(s) - Len(p) + 1) : SubSeq(s, i, i + Len(p) - 1) = p

\* checkName without the tests of the end of the name
checkNameNoSuffix(name) ==
    /\ Len(name) # 0
    /\ name # <<".">> /\ name # <<".", ".">>
    /\ ~HasPrefix(name, <<"/">>)
    /\ ~HasPrefix(name, <<".", "/">>)
    /\ ~HasPrefix(name, <<".", ".", "/">>)
    /\ ~Contains(name, <<"/", "/">>)
    /\ ~Contains(name, <<"/", ".", "/">>)
    /\ ~Contains(name, <<"/", ".", ".", "/">>)

\* checkName: whether an entry name is well-formed
checkName(name) ==
    /\ Len(name) # 0
    /\ name # <<".">> /\ name # <<".", ".">>
    /\ ~HasPrefix(name, <<"/">>)
    /\ ~HasPrefix(name, <<".", "/">>)
    /\ ~HasPrefix(name, <<".", ".", "/">>)
    /\ ~HasSuffix(name, <<"/", ".">>)
    /\ ~HasSuffix(name, <<"/", ".", ".">>)
    /\ ~Contains(name, <<"/", "/">>)
    /\ ~Contains(name, <<"/", ".", "/">>)
    /\ ~Contains(name, <<"/", ".", ".", "/">>)

\* strings.Split(name, "/"): the segments of a name
RECURSIVE Split(_)
Split(s) ==
    IF s = << >>
    THEN << << >> >>
    ELSE LET rest == Split(Tail(s))
         IN IF Head(s) = "/"
            THEN << << >> >> \o rest
            ELSE << <<Head(s)>> \o Head(rest) >> \o Tail(rest)

EmptyAnchor == (<< >> :> Directory) @@ (<< <<"A">> >> :> Directory)

\* ------------------------------------------------ fingerprints: inputs
\* the strings that get sorted (env pairs, file names, output globs), in the
\* byte order of sort.Strings
Ascending ==
    << "A=1", "A=2", "B=1", "B=2", "a.ts", "b.ts",
       "build/**", "dist/**", "x/**", "y/**" >>

Less(x, y) ==
    \E i, j \in 1..Len(Ascending) : i < j /\ Ascending[i] = x /\ Ascending[j] = y

\* the variables of the host: A and B can be named by the env of a task, P
\* by its pass-through env, S by neither
HostVars == {"A", "B", "P", "S", "PATH"}

PlatformEssentials == {"PATH"}

DefaultEnviron == [v \in HostVars |-> "1"]

\* runOperation: the hash of the package of the task
PackageHash ==
    << "HashObject",
       [ hashOfFiles |-> "h1", ancestralHashes |-> << >>, externalDepsHash |-> "",
         globalHash |-> "g1" ] >>

\* what one execution of the task build is given
DefaultInput ==
    [ Task |-> "build", PackHash |-> PackageHash, GlobalHash |-> "g1",
      Files |-> [k \in {"a.ts", "b.ts"} |-> "f1"],
      Inclusions |-> <<"dist/**", "build/**">>,
      Exclusions |-> <<"x/**", "y/**">>,
      TaskDependencyHashes |-> <<"d1", "d2">>,
      PassThruArgs |-> << >>,
      Env |-> <<"A", "B">>,
      PassThroughEnv |-> <<"P", "Q">>,
      EnvMode |-> "loose",
      sortOutputs |-> FALSE,
      Environ |-> DefaultEnviron,
      filesIteration |-> <<"a.ts", "b.ts">>,
      envIteration |-> <<"A", "B">> ]

\* the other values each input takes
Candidates ==
    [ Files |-> {[DefaultInput.Files EXCEPT !["b.ts"] = "f2"]},
      Inclusions |-> {<<"build/**", "dist/**">>},
      Exclusions |-> {<<"y/**", "x/**">>},
      TaskDependencyHashes |-> {<<"d2", "d1">>},
      PassThruArgs |-> {<<"--watch">>},
      Env |-> {<<"B", "A">>, <<"A">>},
      PassThroughEnv |-> {<<"Q", "P">>, <<"P">>},
      EnvMode |-> {"strict", "infer"},
      sortOutputs |-> {TRUE},
      Environ |-> {[DefaultEnviron EXCEPT ![v] = "2"] : v \in {"A", "B", "P", "S"}},
      filesIteration |-> {<<"b.ts", "a.ts">>},
      envIteration |-> {<<"B", "A">>} ]

\* an input and those that differ from it in one place
Vary(h) ==
    {h} \cup UNION { {[h EXCEPT ![f] = c] : c \in Candidates[f]} : f \in DOMAIN Candidates }

\* an execution that has not begun
NotStarted ==
    [ pc |-> "start", hash |-> << >>, hashErr |-> FALSE,
      fetchKey |-> << >>, childEnv |-> << >>,
      putKey |-> << >>, taskHash |-> << >>, globalHash |-> << >> ]

\* ------------------------------------------------------------------- state
VARIABLES
    cli,          \* the command line of the run
    pipeline,     \* the pipeline of turbo.json
    scripts,      \* the scripts of every package.json
    runpc,        \* where RunCommand.Run is: start, walking, done, exited
    exitCode,     \* the exit code of the run, -1 until it ends
    opts,         \* the RunOptions of the run
    targets,      \* runSpec.Targets
    engine,       \* the result of engine.Prepare
    pc,           \* per task id: where its visit is
    runState,     \* the RunState ledger
    errs,         \* the errors the walk has collected: <<task id, exit code>>
    procDone,     \* process.Manager.done
    cmdErr,       \* per task id: the exit code of its failed command until exec returns, else 0
    fetched,      \* per task id: the outcome of its cache fetch
    spawned,      \* the task ids whose command was spawned
    puts,         \* the task ids whose outputs were put into the cache
    disk,         \* the working tree: the entry at every path
    cacheDirectory, \* fsCache: per key, the entries of the folder of the key
    cachepc,      \* the fsCache scenario: start, put, fetched
    putLog,       \* the calls of fsCache.Put so far
    fetchLog,     \* the calls of fsCache.Fetch so far
    entryName,    \* the archive entry name given to checkName
    nameResult,   \* what checkName said of it: unchecked, wellFormed, malformed
    archive,      \* the entries of the archive being restored, in order
    anchorFs,     \* the filesystem around the anchor: the entry at each path
    restorepc,    \* where Restore is: idle, entries, done
    position,     \* the number of archive entries read so far
    symlinks,     \* the symlink headers waiting for their target
    restored,     \* the names Restore has restored so far, in order
    restoreErr,   \* the error Restore returned, or none
    hashInputs,   \* what two executions of a task are given: sides a and b
    exec,         \* where each of the two executions is, and what it computed
    source,       \* the files of the directory a cache item is created from
    item,         \* the cache item: the headers written, the calls made
    cachedFolder, \* the folder of one key in the cache directory
    workers,      \* the runs that put and fetch that key at the same time
    spaces,       \* the Spaces client: its queue, its goroutines, the API log
    turbod,       \* the daemon: its timer, its channels, its server
    pidLock,      \* the pid file and the socket of a repository, and its daemons
    copyState,    \* the tree RecursiveCopy is given and what it returned
    ledger,       \* the counters of RunState and the workers that add to them
    putState,     \* fsCache.Put: the file queue, the digesters, the caller
    argState      \* the arguments of the command line and of the tasks' commands

\* the state of a run of the run command
runVars == << cli, pipeline, scripts, runpc, exitCode, opts, targets, engine, pc,
              runState, errs, procDone, cmdErr, fetched, spawned, puts >>

\* the state of the local filesystem cache and of the tree it works on
cacheVars == << disk, cacheDirectory, cachepc, putLog, fetchLog >>

\* the state of the check of an archive entry name
nameVars == << entryName, nameResult >>

\* the state of the restore of an archive into an anchor
restoreVars == << archive, anchorFs, restorepc, position, symlinks, restored,
                 restoreErr >>

\* the state of two executions of a task, side by side
hashVars == << hashInputs, exec >>

\* the state of the creation of a cache item
createVars == << source, item >>

\* the state of the runs that share a key of the cache
flightVars == << cachedFolder, workers >>

\* the state of the models that stand alone
lateVars == << spaces, turbod, pidLock, copyState, ledger, putState, argState >>

\* everything but the models that stand alone
earlyVars == << runVars, cacheVars, nameVars, restoreVars, hashVars, createVars,
               flightVars >>

vars == << earlyVars, lateVars >>

\* what a run is given and what its walk does not touch
inputs == << cli, pipeline, scripts, cacheVars, nameVars, restoreVars, hashVars,
            createVars, flightVars, lateVars >>

NoEngine == [err |-> "none", pairs |-> {}, nodes |-> {}, edges |-> {}]

\* the name check while the model follows something else
NameIdle ==
    /\ entryName = << >>
    /\ nameResult = "unchecked"

\* the restore while the model follows something else
RestoreIdle ==
    /\ archive = << >>
    /\ anchorFs = << >>
    /\ restorepc = "idle"
    /\ position = 0
    /\ symlinks = << >>
    /\ restored = << >>
    /\ restoreErr = "none"

\* the two executions while the model follows something else
HashIdle ==
    /\ hashInputs = << >>
    /\ exec = << >>

\* the creation of a cache item while the model follows something else
CreateIdle ==
    /\ source = << >>
    /\ item = << >>

\* the runs sharing a key while the model follows something else
FlightIdle ==
    /\ cachedFolder = << >>
    /\ workers = << >>

\* the models that stand alone while the model follows something else
SpacesIdle == spaces = << >>

DaemonIdle == turbod = << >>

LockIdle == pidLock = << >>

CopyIdle == copyState = << >>

LedgerIdle == ledger = << >>

PutIdle == putState = << >>

ArgsIdle == argState = << >>

LateIdle ==
    /\ SpacesIdle /\ DaemonIdle /\ LockIdle /\ CopyIdle /\ LedgerIdle /\ PutIdle
    /\ ArgsIdle

\* the local cache while the model follows something else
CacheIdle ==
    /\ disk = << >>
    /\ cacheDirectory = << >>
    /\ cachepc = "idle"
    /\ putLog = << >>
    /\ fetchLog = << >>

Init ==
    /\ cli \in CommandLines
    /\ \E repo \in Repos : pipeline = repo.pipeline /\ scripts = repo.scripts
    /\ runpc = "start"
    /\ exitCode = -1
    /\ opts = NoOptions
    /\ targets = {}
    /\ engine = NoEngine
    /\ pc = [id \in TaskIds |-> "absent"]
    /\ runState = NewRunState
    /\ errs = {}
    /\ procDone = FALSE
    /\ cmdErr = [id \in TaskIds |-> 0]
    /\ fetched = [id \in TaskIds |-> "none"]
    /\ spawned = {}
    /\ puts = {}
    /\ CacheIdle
    /\ NameIdle
    /\ RestoreIdle
    /\ HashIdle
    /\ CreateIdle
    /\ FlightIdle
    /\ LateIdle

\* ----------------------------------------------------------- RunCommand.Run
\* the run ends before execution with exit code 1
Fail(o, t, e) ==
    /\ runpc' = "done"
    /\ exitCode' = 1
    /\ opts' = o
    /\ targets' = t
    /\ engine' = e
    /\ UNCHANGED << pc, runState, errs, procDone, cmdErr, fetched, spawned, puts >>

\* runOperation going on after an invalid persistent task configuration
EngineFailsUnlessPersistent(e) == e.err \notin {"none", "persistent"}

\* runOperation: an error of buildTaskGraph ends the run with exit code 1
EngineFails(e) == e.err # "none"

\* RunCommand.Run and runOperation up to the call of executeTasks
Run ==
    /\ runpc = "start"
    /\ LET o == parseRunArgs(cli)
           t == getTargetsFromArguments(cli.args, pipeline)
       IN IF flagsParse(cli).err \/ o.err
          THEN Fail(NoOptions, {}, NoEngine)
          ELSE IF t.err
          THEN Fail(o, {}, NoEngine)
          ELSE \E tasks \in EngineTasks(pipeline) :
                 LET e == Prepare(tasks, PackageTaskDeps(pipeline), TopologicalGraph(o),
                                  pipeline, scripts, Pkgs, t.targets)
                 IN IF EngineFails(e)
                    THEN Fail(o, t.targets, e)
                    ELSE /\ runpc' = "walking"
                         /\ opts' = o
                         /\ targets' = t.targets
                         /\ engine' = e
                         /\ pc' = [id \in TaskIds |->
                                      IF id \in e.nodes THEN "waiting" ELSE "absent"]
                         /\ UNCHANGED << exitCode, runState, errs, procDone, cmdErr,
                                         fetched, spawned, puts >>
    /\ UNCHANGED inputs

\* ------------------------------------------------- engine.Execute (the walk)
Nodes == engine.nodes

\* the tasks a task of the task graph depends on
DepsOf(id) == {e[2] : e \in {x \in engine.edges : x[1] = id}}

\* a visit that has returned, and a vertex the walk will never visit
Returned(id) == pc[id] \in {"nil", "err"}

Settled(id) == pc[id] \in {"nil", "err", "upstream"}

\* the visits that hold a slot of the semaphore
InExec ==
    {"fetching", "hit", "miss", "nodir", "nofile", "exiting", "running", "killed", "put",
     "closing"}

Executing == {id \in Nodes : pc[id] \in InExec}

\* a vertex is visited once all its dependencies were visited without error
Ready(id) == \A d \in DepsOf(id) : pc[d] = "nil"

\* a vertex with a failed or unreachable dependency is never visited
Unreachable(id) == \E d \in DepsOf(id) : pc[d] \in {"err", "upstream"}

\* Execute is given ExecOpts.Parallel and ExecOpts.Concurrency: with
\* --parallel every task is executed in parallel, else a visit takes a slot of
\* the semaphore of size Concurrency
SemaphoreFree(o) == o.parallel \/ Cardinality(Executing) < o.concurrency

\* the walk gives up a vertex whose dependency failed
UpstreamFailed(id) ==
    /\ runpc = "walking"
    /\ pc[id] = "waiting"
    /\ Unreachable(id)
    /\ pc' = [pc EXCEPT ![id] = "upstream"]
    /\ UNCHANGED << inputs, runpc, exitCode, opts, targets, engine, runState,
                    errs, procDone, cmdErr, fetched, spawned, puts >>

\* ------------------------------------------------------- execContext.exec
\* fsCache.Fetch: no folder for the hash, a failed copy, or a restored hit
FetchOutcomes == {"miss", "error", "hit"}

\* what Fetch returns to exec: hit only when the folder was copied into place
FetchResult(outcome) == IF outcome = "hit" THEN "hit" ELSE "nohit"

\* the Cache section taking a failed restore for a hit
FetchHitDespiteError(o, outcome) == ~o.forceExecution /\ outcome \in {"hit", "error"}

\* exec, Cache section: the task is restored from the cache
FetchHit(o, outcome) == ~o.forceExecution /\ outcome = "hit"

\* the Cache section reading the cache whatever the options
ReadsCacheAlways(o) == TRUE

\* exec, Cache section: turboCache.Fetch is called unless --force is given
ReadsCache(o) == ~o.forceExecution

\* exec caching outputs whatever the definition of the task says
CachingEnabledIgnoringDefinition(o, def) == o.cache

\* exec: logs are written to disk and outputs are cached
CachingEnabled(o, def) == o.cache /\ def.Cache # "false"

\* exec, Run the command: what the visitor returns when the command failed
ExecFailureReturn(o) == "err"

\* exec closing the process manager on a failure whatever the mode
ClosesProcessesAlways(o) == TRUE

\* exec, Run the command: a failure closes the process manager when bailing
ClosesProcesses(o) == o.bail

\* exec going on for a package that has no such script
ScriptExistsAlways(scr, id) == TRUE

\* exec: pack.Scripts[task] exists
ScriptExists(scr, id) == id[2] \in scr[id[1]]

\* The walk visits a vertex: exec up to the Cache section. runState.Run
\* records the task as building in a critical section of its own; with
\* --force the cache is not read and exec goes on to the command.
Visit(id) ==
    /\ runpc = "walking"
    /\ pc[id] = "waiting"
    /\ Ready(id)
    /\ SemaphoreFree(opts)
    /\ IF ~ScriptExists(scripts, id)
       THEN \* the script does not exist: skipped
            /\ pc' = [pc EXCEPT ![id] = "nil"]
            /\ UNCHANGED runState
       ELSE /\ runState' = RunStateRun(runState, id)
            /\ pc' = [pc EXCEPT ![id] =
                         IF ~HasDefinition(pipeline, id) THEN "nil"
                         ELSE IF ReadsCache(opts) THEN "fetching"
                         ELSE "miss"]
    /\ UNCHANGED << inputs, runpc, exitCode, opts, targets, engine, errs,
                    procDone, cmdErr, fetched, spawned, puts >>

\* exec, Cache section: turboCache.Fetch returns; after a hit the task is
\* restored, else exec goes on to the command
CacheSection(id) ==
    /\ runpc = "walking"
    /\ pc[id] = "fetching"
    /\ \E outcome \in FetchOutcomes :
          /\ fetched' = [fetched EXCEPT ![id] = FetchResult(outcome)]
          /\ pc' = [pc EXCEPT ![id] = IF FetchHit(opts, outcome) THEN "hit" ELSE "miss"]
    /\ UNCHANGED << inputs, runpc, exitCode, opts, targets, engine, runState, errs,
                    procDone, cmdErr, spawned, puts >>

\* exec, Cache section after a hit: the tracer records the task as cached and
\* exec returns nil
TraceCached(id) ==
    /\ runpc = "walking"
    /\ pc[id] = "hit"
    /\ runState' = add(runState, id, "cached")
    /\ pc' = [pc EXCEPT ![id] = "nil"]
    /\ UNCHANGED << inputs, runpc, exitCode, opts, targets, engine, errs,
                    procDone, cmdErr, fetched, spawned, puts >>

\* exec, Run the command: processes.Exec starts the child, or returns
\* ErrClosing when the manager was closed, and then exec returns nil
ProcessesExec(id) ==
    /\ IF procDone
       THEN /\ pc' = [pc EXCEPT ![id] = "nil"]
            /\ UNCHANGED spawned
       ELSE /\ pc' = [pc EXCEPT ![id] = "running"]
            /\ spawned' = spawned \cup {id}
    /\ UNCHANGED << runpc, exitCode >>

\* exec, Setup log file: after a failure of fs.EnsureDir or of os.Create the
\* tracer records the task as failed, in a critical section of its own. When
\* bailing exec is then on its way to os.Exit, else it goes on.
LogFileFails(id, goesOn) ==
    /\ runState' = add(runState, id, "buildFailed")
    /\ pc' = [pc EXCEPT ![id] = IF opts.bail THEN "exiting" ELSE goesOn]
    /\ UNCHANGED << runpc, exitCode, spawned >>

\* exec after a cache miss: the log file is set up and the command is handed
\* to the process manager. When the log file cannot be set up, the tracer
\* records the failure before exec goes on.
Spawn(id) ==
    /\ runpc = "walking"
    /\ pc[id] = "miss"
    /\ \E ensureOk \in BOOLEAN, createOk \in BOOLEAN :
         LET logged == CachingEnabled(opts, DefinitionOf(pipeline, id))
         IN IF logged /\ ~ensureOk
            THEN LogFileFails(id, "nodir")
            ELSE IF logged /\ ~createOk
            THEN LogFileFails(id, "nofile")
            ELSE /\ ProcessesExec(id)
                 /\ UNCHANGED runState
    /\ UNCHANGED << inputs, opts, targets, engine, errs, procDone, cmdErr, fetched, puts >>

\* exec, Setup log file, when bailing: after the failure was recorded the
\* error is written to the terminal and os.Exit(1) ends the process, the
\* other visits wherever they are
OsExit(id) ==
    /\ runpc = "walking"
    /\ pc[id] = "exiting"
    /\ runpc' = "exited"
    /\ exitCode' = 1
    /\ UNCHANGED << inputs, opts, targets, engine, pc, runState, errs, procDone, cmdErr,
                    fetched, spawned, puts >>

\* exec after fs.EnsureDir has failed under --continue: os.Create, and when
\* it succeeds the command is handed to the process manager
CreateLog(id) ==
    /\ runpc = "walking"
    /\ pc[id] = "nodir"
    /\ \E createOk \in BOOLEAN :
         IF ~createOk
         THEN LogFileFails(id, "nofile")
         ELSE /\ ProcessesExec(id)
              /\ UNCHANGED runState
    /\ UNCHANGED << inputs, opts, targets, engine, errs, procDone, cmdErr, fetched, puts >>

\* exec after os.Create has failed under --continue: the command is handed to
\* the process manager
ExecWithoutLog(id) ==
    /\ runpc = "walking"
    /\ pc[id] = "nofile"
    /\ ProcessesExec(id)
    /\ UNCHANGED << inputs, opts, targets, engine, runState, errs, procDone, cmdErr,
                    fetched, puts >>

\* Manager.Close: done is set and every child is stopped
Close(p, id) ==
    [x \in TaskIds |-> IF x # id /\ p[x] = "running" THEN "killed" ELSE p[x]]

\* The child of a task exits with a code and processes.Exec returns. After a
\* failure the tracer records the task as failed; when the manager is to be
\* closed that is a later step of exec. After a success the outputs are put
\* when they are cached, and the tracer is called after the put.
ChildExit(id) ==
    /\ runpc = "walking"
    /\ pc[id] = "running"
    /\ \E code \in 0..MaxExitCode :
         IF code = 0
         THEN IF CachingEnabled(opts, DefinitionOf(pipeline, id))
              THEN /\ puts' = puts \cup {id}
                   /\ pc' = [pc EXCEPT ![id] = "put"]
                   /\ UNCHANGED << runState, errs, cmdErr >>
              ELSE /\ runState' = add(runState, id, "built")
                   /\ pc' = [pc EXCEPT ![id] = "nil"]
                   /\ UNCHANGED << puts, errs, cmdErr >>
         ELSE /\ runState' = add(runState, id, "buildFailed")
              /\ IF ClosesProcesses(opts)
                 THEN /\ pc' = [pc EXCEPT ![id] = "closing"]
                      /\ cmdErr' = [cmdErr EXCEPT ![id] = code]
                      /\ UNCHANGED errs
                 ELSE /\ pc' = [pc EXCEPT ![id] = ExecFailureReturn(opts)]
                      /\ errs' = IF ExecFailureReturn(opts) = "err"
                                 THEN errs \cup {<<id, code>>} ELSE errs
                      /\ UNCHANGED cmdErr
              /\ UNCHANGED puts
    /\ UNCHANGED << inputs, runpc, exitCode, opts, targets, engine, procDone,
                    fetched, spawned >>

\* exec after a failed command when bailing: processes.Close stops every
\* other child, then exec returns the error of the command
ProcessesClose(id) ==
    /\ runpc = "walking"
    /\ pc[id] = "closing"
    /\ procDone' = TRUE
    /\ pc' = [Close(pc, id) EXCEPT ![id] = ExecFailureReturn(opts)]
    /\ errs' = IF ExecFailureReturn(opts) = "err"
               THEN errs \cup {<<id, cmdErr[id]>>} ELSE errs
    /\ cmdErr' = [cmdErr EXCEPT ![id] = 0]
    /\ UNCHANGED << inputs, runpc, exitCode, opts, targets, engine, runState,
                    fetched, spawned, puts >>

\* exec, Clean up tracing: after the put the tracer records the task as built
\* and exec returns nil
TraceBuilt(id) ==
    /\ runpc = "walking"
    /\ pc[id] = "put"
    /\ runState' = add(runState, id, "built")
    /\ pc' = [pc EXCEPT ![id] = "nil"]
    /\ UNCHANGED << inputs, runpc, exitCode, opts, targets, engine, errs,
                    procDone, cmdErr, fetched, spawned, puts >>

\* Manager.Exec returns ErrClosing for a child stopped by Close: exec returns
\* nil without recording an outcome.
ErrClosing(id) ==
    /\ runpc = "walking"
    /\ pc[id] = "killed"
    /\ pc' = [pc EXCEPT ![id] = "nil"]
    /\ UNCHANGED << inputs, runpc, exitCode, opts, targets, engine, runState,
                    errs, procDone, cmdErr, fetched, spawned, puts >>

\* ------------------------------------------------------------ executeTasks
RECURSIVE MaxCode(_)
MaxCode(es) ==
    IF es = {} THEN 0
    ELSE LET e == CHOOSE x \in es : TRUE
             m == MaxCode(es \ {e})
         IN IF e[2] > m THEN e[2] ELSE m

\* executeTasks after the walk: the highest child exit code is tracked in
\* exitCode, runState.Close is called, and the function returns 0.
executeTasks(es) ==
    LET exitCode_ == MaxCode(es) IN 0

\* the walk has ended: executeTasks returns and the run ends
Finish ==
    /\ runpc = "walking"
    /\ \A id \in Nodes : Settled(id)
    /\ runpc' = "done"
    /\ exitCode' = executeTasks(errs)
    /\ UNCHANGED << inputs, opts, targets, engine, pc, runState, errs, procDone, cmdErr,
                    fetched, spawned, puts >>

\* ------------------------------------------------------------ specification
Next ==
    \/ Run
    \/ \E id \in TaskIds : UpstreamFailed(id)
    \/ \E id \in TaskIds : Visit(id)
    \/ \E id \in TaskIds : CacheSection(id)
    \/ \E id \in TaskIds : TraceCached(id)
    \/ \E id \in TaskIds : Spawn(id)
    \/ \E id \in TaskIds : OsExit(id)
    \/ \E id \in TaskIds : CreateLog(id)
    \/ \E id \in TaskIds : ExecWithoutLog(id)
    \/ \E id \in TaskIds : ChildExit(id)
    \/ \E id \in TaskIds : ProcessesClose(id)
    \/ \E id \in TaskIds : TraceBuilt(id)
    \/ \E id \in TaskIds : ErrClosing(id)
    \/ Finish

Spec == Init /\ [][Next]_vars

\* Every visit runs to its end: children exit, and no goroutine of the walk
\* is starved.
FairSpec == Spec /\ WF_vars(Next)

TypeOK ==
    /\ cli \in CommandLines
    /\ pipeline \in Pipelines
    /\ scripts \in ScriptFixtures
    /\ runpc \in {"start", "walking", "done", "exited"}
    /\ exitCode \in -1..MaxExitCode
    /\ targets \subseteq TaskNames
    /\ pc \in [TaskIds -> {"absent", "waiting", "nil", "err", "upstream"} \cup InExec]
    /\ runState.state \in [TaskIds -> RunStatuses]
    /\ errs \subseteq TaskIds \X (1..MaxExitCode)
    /\ procDone \in BOOLEAN
    /\ cmdErr \in [TaskIds -> 0..MaxExitCode]
    /\ fetched \in [TaskIds -> {"none", "hit", "nohit"}]
    /\ spawned \subseteq TaskIds
    /\ puts \subseteq TaskIds

\* ================================================================== claims
\* the run got as far as executeTasks (no error before execution)
Walked == runpc # "start" /\ ~opts.err /\ targets # {} /\ engine.err = "none"

\* the run has returned from executeTasks
Completed == runpc = "done" /\ Walked

\* exec has been entered for the task
Started(id) == pc[id] \in InExec \cup {"nil", "err"}

TerminalStatuses == {"built", "cached", "buildFailed"}

\* The tasks the pipeline makes a task depend on: "task" of the same
\* workspace, "^task" of the workspace's dependencies (none under
\* --parallel), and "package#task".
DeclaredDeps(id) ==
    IF ~HasDefinition(pipeline, id)
    THEN {}
    ELSE LET refs == {r \in DefinitionOf(pipeline, id).DependsOn : r.prefix # "$"}
         IN {<<r.pkg, r.task>> : r \in {x \in refs : x.pkg # ""}}
            \cup {<<id[1], r.task>> : r \in {x \in refs : x.pkg = "" /\ x.prefix = ""}}
            \cup {<<q, r.task>> : q \in TransitiveDeps(TopologicalGraph(opts), id[1]),
                                  r \in {x \in refs : x.pkg = "" /\ x.prefix = "^"}}

\* the tasks a task depends on in the task graph, transitively
Ancestors(id) ==
    LET succ == [n \in TaskIds |-> {e[2] : e \in {x \in engine.edges : x[1] = n}}]
    IN Reachable(succ, succ[id], {})

\* the visit of the task has ended with its command having failed
Failed(id) == runState.state[id] = "buildFailed" /\ Returned(id)

\* the visit of the task has ended in a terminal success state: its command
\* was run or its outputs were restored, or its package has no such script
\* and the task was skipped
TerminalSuccess(id) ==
    /\ pc[id] = "nil"
    /\ runState.state[id] \in {"built", "cached"} \/ ~ScriptExists(scripts, id)

\* C1: whenever task A depends on task B, exec is entered for A (so A's
\* cache restore, process spawn, log output and cache write happen) only
\* after B has reached a terminal state: its visit has returned with B
\* built, restored from the cache or skipped.
C1_DependencyFirst ==
    \A a \in Nodes : \A b \in DeclaredDeps(a) \cap Nodes :
        Started(a) => TerminalSuccess(b)

\* C2: a completed run exits with 0 when no child failed, else with the
\* highest exit code among the failed children.
C2_ExitCodeIsHighest ==
    Completed => exitCode = MaxCode(errs)

\* C3: in a completed run no started task is left building, and every
\* started task was counted exactly once in the totals.
C3_OneTerminalStatus ==
    Completed =>
        /\ \A id \in TaskIds : runState.state[id] # "building"
        /\ runState.Attempted =
              Cardinality({id \in TaskIds : runState.state[id] \in TerminalStatuses})

\* C4: a task has the status cached only if its cache fetch returned a hit,
\* a task whose fetch returned a hit has the status cached once exec has
\* returned, and such a task never spawns its command.
C4_CachedIffHit ==
    \A id \in TaskIds :
        /\ runState.state[id] = "cached" => fetched[id] = "hit"
        /\ (fetched[id] = "hit" /\ Returned(id)) => runState.state[id] = "cached"
        /\ fetched[id] = "hit" => id \notin spawned

C4_Witness ==
    \E id \in TaskIds, other \in TaskIds :
        /\ runState.state[id] = "cached"
        /\ fetched[other] = "nohit" /\ other \in spawned

\* C5: when bailing, once a task has failed no task that exec had not yet
\* entered is entered afterwards.
C5_NoStartAfterFailure ==
    [][ (opts.bail /\ \E f \in TaskIds : runState.state[f] = "buildFailed")
          => \A id \in TaskIds :
                runState.state[id] = "none" => runState'.state[id] = "none" ]_vars

\* the status under which the run reports the task: the entry of the task in
\* the RunState ledger, whose statuses are building, buildStopped, built,
\* cached and buildFailed; a task that was never entered has no entry
ReportedAs(id) == runState.state[id]

\* C6: under --continue a task with a failed task among its transitive
\* dependencies is never entered by exec: it is not spawned, it is not
\* reported as built or failed, and once the run has ended it is reported as
\* skipped.
C6_SkippedAfterUpstreamFailure ==
    (Walked /\ ~opts.bail) =>
        \A id \in Nodes :
            (\E d \in Ancestors(id) : Failed(d)) =>
                /\ id \notin spawned
                /\ pc[id] \in {"waiting", "upstream"}
                /\ ReportedAs(id) \notin {"built", "buildFailed"}
                /\ runpc = "done" => ReportedAs(id) = "skipped"

\* what C7 promises at the end of a run under --continue
ContinueOutcome ==
    /\ runpc = "done"
    /\ \A id \in Nodes :
          (id[2] \in scripts[id[1]] /\ ~\E d \in Ancestors(id) : Failed(d))
             => runState.state[id] \in TerminalStatuses
    /\ \A id \in Nodes :
          runState.state[id] = "buildFailed" => \E e \in errs : e[1] = id

\* C7: under --continue the run ends, every task that has its script and no
\* failed transitive dependency has been executed or restored from the
\* cache by then, and every failed task is among the reported errors.
C7_ContinueRunsIndependentTasks ==
    (runpc = "walking" /\ ~opts.bail) ~> ContinueOutcome

C7_Witness ==
    /\ Completed /\ ~opts.bail
    /\ \E f \in Nodes, g \in Nodes :
          /\ Failed(f) /\ g \notin Ancestors(f) /\ f \notin Ancestors(g)
          /\ runState.state[g] = "built"

\* C8: the concurrency of a run is at least 1, it is the N of
\* --concurrency=N or else the default of 10, and at no moment do more
\* visits execute than that.
C8_BoundedConcurrency ==
    Walked =>
        /\ opts.concurrency >= 1
        /\ opts.concurrency =
              (IF cli.concurrency = <<>> THEN DefaultConcurrency ELSE cli.concurrency[1])
        /\ Cardinality(Executing) <= opts.concurrency

\* the pairs <<persistent task, dependent>> of the pipeline: the dependency
\* is persistent and its package has the script
PersistentPairs ==
    { <<b, a>> \in TaskIds \X TaskIds :
        /\ a \in engine.nodes /\ b \in engine.nodes
        /\ b \in DeclaredDeps(a)
        /\ HasDefinition(pipeline, b)
        /\ DefinitionOf(pipeline, b).Persistent
        /\ b[2] \in scripts[b[1]] }

\* C9: when a task of the task graph depends on an implemented persistent
\* task, the run ends with exit code 1 on an error that names every such
\* pair of tasks, and no task is executed.
C9_PersistentDependencyRejected ==
    (runpc # "start" /\ PersistentPairs # {}) =>
        /\ runpc = "done"
        /\ exitCode = 1
        /\ engine.err = "persistent"
        /\ PersistentPairs \subseteq engine.pairs
        /\ spawned = {}
        /\ runState = NewRunState
        /\ \A id \in TaskIds : pc[id] = "absent"

C9_Witness ==
    /\ runpc = "done"
    /\ Cardinality(PersistentPairs) >= 2
    /\ engine.err = "persistent"

\* C10: when an argument names a task that is not in the pipeline, the run
\* ends with exit code 1 and no task is executed, even if other arguments
\* name tasks of the pipeline.
C10_UnknownTargetFails ==
    (runpc # "start" /\ \E i \in 1..Len(cli.args) : Key(cli.args[i]) \notin DOMAIN pipeline) =>
        /\ runpc = "done"
        /\ exitCode = 1
        /\ spawned = {}
        /\ runState = NewRunState
        /\ \A id \in TaskIds : pc[id] = "absent"

C10_Witness ==
    /\ runpc = "done"
    /\ \E i \in 1..Len(cli.args) : Key(cli.args[i]) \notin DOMAIN pipeline
    /\ \E i \in 1..Len(cli.args) : Key(cli.args[i]) \in DOMAIN pipeline
    /\ parseRunArgs(cli).err = FALSE

\* ================================================== the local cache (fsCache)
\* the run command while the model follows something else
RunIdle ==
    /\ cli = [args |-> << >>, flags |-> {}, concurrency |-> << >>]
    /\ pipeline = PipelineTopo
    /\ scripts = AllScripts
    /\ runpc = "start"
    /\ exitCode = -1
    /\ opts = NoOptions
    /\ targets = {}
    /\ engine = NoEngine
    /\ pc = [id \in TaskIds |-> "absent"]
    /\ runState = NewRunState
    /\ errs = {}
    /\ procDone = FALSE
    /\ cmdErr = [id \in TaskIds |-> 0]
    /\ fetched = [id \in TaskIds |-> "none"]
    /\ spawned = {}
    /\ puts = {}

\* Put is called up to MaxPuts times before the fetch
MaxPuts == 2

\* fs.IsDirectory
IsDirectory(d, p) == d[p].kind = "dir"

\* fs.PathExists of the folder of a key: EnsureDir creates it with the first
\* file that is copied
PathExists(cache, hash) == \E r \in RelPaths : cache[hash][r] # Absent

\* fs.EnsureDir(path): the directories above the path exist afterwards
EnsureDir(folder, r) ==
    [x \in RelPaths |-> IF x \in Parents(r) THEN Directory ELSE folder[x]]

\* fs.CopyOrLinkFile: the destination is what the source is
CopyOrLinkFile(folder, r, entry) == [folder EXCEPT ![r] = entry]

\* fsCache.Put, the body of the loop over the files: a directory is skipped,
\* anything else is copied to <cacheDirectory>/<hash>/<rel>
PutFile(d, target, folder, file) ==
    IF ~IsDirectory(d, file)
    THEN CopyOrLinkFile(EnsureDir(folder, Rel(target, file)), Rel(target, file), d[file])
    ELSE folder

\* fsCache.Put: every file of the list goes through the loop; the files are
\* copied to different places, so the order of the workers does not matter
RECURSIVE PutFiles(_, _, _, _)
PutFiles(d, target, folder, files) ==
    IF files = {} THEN folder
    ELSE LET file == CHOOSE f \in files : TRUE
         IN PutFiles(d, target, PutFile(d, target, folder, file), files \ {file})

\* fs.RecursiveCopyOrLinkFile(cachedFolder, target): every entry of the
\* folder is copied to the same relative path under the target
RecursiveCopyOrLinkFile(folder, target, d) ==
    [p \in DiskPaths |->
        IF \E r \in RelPaths : p = Join(target, r) /\ folder[r] # Absent
        THEN folder[CHOOSE r \in RelPaths : p = Join(target, r)]
        ELSE d[p]]

\* fsCache.Fetch: a miss when the folder of the key does not exist, else the
\* folder is copied into place and the fetch is a hit
Fetch(cache, target, hash, d) ==
    IF ~PathExists(cache, hash)
    THEN [hit |-> FALSE, disk |-> d]
    ELSE [hit |-> TRUE, disk |-> RecursiveCopyOrLinkFile(cache[hash], target, d)]

\* the paths of the package that exist in the working tree
Existing(d, target) == {r \in RelPaths : d[Join(target, r)] # Absent}

\* the cache scenario starts from a package with the outputs of its task
CacheInit ==
    /\ RunIdle
    /\ NameIdle
    /\ RestoreIdle
    /\ HashIdle
    /\ CreateIdle
    /\ FlightIdle
    /\ LateIdle
    /\ \E tree \in OutputTrees : disk = DiskOf(tree)
    /\ cacheDirectory = EmptyCache
    /\ cachepc = "start"
    /\ putLog = << >>
    /\ fetchLog = << >>

\* exec, Cache command outputs: Put(pack.Dir, hash, ..., filesToBeCached)
CachePut(hash, files) ==
    /\ cachepc \in {"start", "put"}
    /\ Len(putLog) < MaxPuts
    /\ files \subseteq Existing(disk, PackDir)
    /\ cacheDirectory' =
          [cacheDirectory EXCEPT ![hash] =
              PutFiles(disk, PackDir, cacheDirectory[hash],
                       {Join(PackDir, r) : r \in files})]
    /\ putLog' = Append(putLog,
                        [key |-> hash, anchor |-> PackDir, files |-> files,
                         entries |-> [r \in RelPaths |-> disk[Join(PackDir, r)]]])
    /\ cachepc' = "put"
    /\ UNCHANGED << disk, fetchLog, runVars, nameVars, restoreVars, hashVars,
                    createVars, flightVars, lateVars >>

\* exec, Cache section: Fetch(target, hash, nil), onto the working tree as it
\* is: Fetch removes nothing before it copies
CacheFetch(hash, target) ==
    /\ cachepc \in {"start", "put"}
    /\ LET got == Fetch(cacheDirectory, target, hash, disk)
       IN /\ disk' = got.disk
          /\ fetchLog' = Append(fetchLog,
                                [key |-> hash, anchor |-> target, hit |-> got.hit])
    /\ cachepc' = "fetched"
    /\ UNCHANGED << cacheDirectory, putLog, runVars, nameVars, restoreVars, hashVars,
                    createVars, flightVars, lateVars >>

CacheNext ==
    \/ \E hash \in CacheKeys, files \in SUBSET RelPaths : CachePut(hash, files)
    \/ \E hash \in CacheKeys, target \in Anchors : CacheFetch(hash, target)

CacheSpec == CacheInit /\ [][CacheNext]_vars

\* the puts of a key so far
PutsOf(hash) == {i \in 1..Len(putLog) : putLog[i].key = hash}

\* C11: when a key was put once and is then fetched at the anchor of the
\* put, the fetch is a hit, every path of the put set (file, directory or
\* symlink) is in place as it was when put, and nothing but the put set and
\* the directories above it is restored: every other path is as the fetch
\* found it.
C11_PutFetchRoundTrip ==
    \A i \in 1..Len(putLog) :
        ( /\ cachepc = "fetched"
          /\ PutsOf(putLog[i].key) = {i}
          /\ fetchLog[1].key = putLog[i].key
          /\ fetchLog[1].anchor = putLog[i].anchor )
        => /\ fetchLog[1].hit
           /\ \A r \in putLog[i].files :
                 disk[Join(fetchLog[1].anchor, r)] = putLog[i].entries[r]
           /\ \A r \in RelPaths :
                 r \notin putLog[i].files \cup UNION {Parents(f) : f \in putLog[i].files}
                    => disk[Join(fetchLog[1].anchor, r)] = putLog[i].entries[r]


\* ------------------------------------------- cache archives: checkName
\* the restore while a name is being checked
NameInit ==
    /\ RunIdle
    /\ CacheIdle
    /\ RestoreIdle
    /\ HashIdle
    /\ CreateIdle
    /\ FlightIdle
    /\ LateIdle
    /\ entryName \in EntryNames
    /\ nameResult = "unchecked"

\* validateEntry hands the name of the header to checkName
CheckName ==
    /\ nameResult = "unchecked"
    /\ nameResult' = IF checkName(entryName) THEN "wellFormed" ELSE "malformed"
    /\ UNCHANGED << entryName, runVars, cacheVars, restoreVars, hashVars,
                    createVars, flightVars, lateVars >>

NameNext == CheckName

NameSpec == NameInit /\ [][NameNext]_vars

\* the segments of a name that have to be real: all of them, but for the
\* empty one that a single trailing slash leaves
RealSegments(name) ==
    LET segs == Split(name)
    IN IF Len(segs) > 1 /\ segs[Len(segs)] = << >>
       THEN SubSeq(segs, 1, Len(segs) - 1)
       ELSE segs

\* the names Test_checkName expects to be rejected
MalformedInTest ==
    { << >>,
      <<".">>,
      <<".", ".">>,
      <<"/">>,
      <<".", "/">>,
      <<".", ".", "/">>,
      <<"/", "a">>,
      <<".", "/", "a">>,
      <<".", ".", "/", "a">>,
      <<"/", ".">>,
      <<"/", ".", ".">>,
      <<"a", "/", ".">>,
      <<"a", "/", ".", ".">>,
      <<"/", "/">>,
      <<"/", ".", "/">>,
      <<"/", ".", ".", "/">>,
      <<"a", "/", "/">>,
      <<"a", "/", ".", "/">>,
      <<"a", "/", ".", ".", "/">>,
      <<"/", "/", "a">>,
      <<"/", ".", "/", "a">>,
      <<"/", ".", ".", "/", "a">>,
      <<"a", "/", "/", "a">>,
      <<"a", "/", ".", "/", "a">>,
      <<"a", "/", ".", ".", "/", "a">> }

\* the names Test_checkName expects to be accepted
WellFormedInTest ==
    { <<".", ".", ".">>,
      <<".", ".", ".", "/", "a">>,
      <<"a", "/", ".", ".", ".">>,
      <<"a", "/", ".", ".", ".", "/", "a">>,
      <<".", ".", ".", "/", ".", ".", ".">> }

\* C14: a name is accepted exactly when it is not empty and none of its
\* segments is empty, "." or ".." (a single trailing slash aside); segments of
\* three or more dots are ordinary segments, and the verdicts are those that
\* Test_checkName expects.
C14_CheckNameSegments ==
    nameResult # "unchecked" =>
        /\ nameResult = "wellFormed"
           <=> \A i \in 1..Len(RealSegments(entryName)) :
                  RealSegments(entryName)[i] \notin {<< >>, <<".">>, <<".", ".">>}
        /\ entryName \in MalformedInTest => nameResult = "malformed"
        /\ entryName \in WellFormedInTest => nameResult = "wellFormed"

\* a name with a three-dot segment was accepted
C14_Witness ==
    /\ nameResult = "wellFormed"
    /\ entryName = <<".", ".", ".", "/", "a">>


\* ---------------------------------------------- cache archives: Restore
\* A path is the sequence of its segments below the directory that holds the
\* anchor; the anchor is the directory A of that directory.
AnchorPath == << <<"A">> >>

IsWithin(anchor, path) == HasPrefix(path, anchor)

\* the entries an archive is made of: those of the archives of TestOpen, a
\* link m whose link name passes through the link l, and a regular file p at
\* the place of a link of a cycle
Header(name, typeflag, linkname) ==
    [Name |-> name, Typeflag |-> typeflag, Linkname |-> linkname]

ArchiveEntries ==
    { Header(<<"d", "/">>, "dir", << >>),
      Header(<<"d", "/", "f">>, "reg", << >>),
      Header(<<"d">>, "reg", << >>),
      Header(<<"e">>, "symlink", <<".", ".", "/">>),
      Header(<<"e", "/", "f">>, "reg", << >>),
      Header(<<".", ".", "/", "x">>, "reg", << >>),
      Header(<<"o">>, "symlink", <<"p">>),
      Header(<<"p">>, "symlink", <<"o">>),
      Header(<<"p">>, "reg", << >>),
      Header(<<"l">>, "symlink", <<".">>),
      Header(<<"m">>, "symlink", <<"l", "/", ".", ".">>),
      Header(<<"m", "/", "f">>, "reg", << >>),
      Header(<<"u">>, "symlink", <<"t">>),
      Header(<<"u">>, "symlink", <<"r">>),
      Header(<<"t">>, "symlink", <<"r">>),
      Header(<<"r">>, "reg", << >>),
      Header(<<"d", "/", "s">>, "symlink", <<".", ".", "/">>),
      Header(<<"d", "/", "s", "/", "g">>, "reg", << >>),
      Header(<<"q">>, "fifo", << >>) }

\* an archive has at most MaxEntries entries
MaxEntries == 3

Archives ==
    { a \in UNION {[1..n -> ArchiveEntries] : n \in 1..MaxEntries} :
        \A i, j \in 1..Len(a) : i # j => a[i] # a[j] }

\* canonicalizeName: the anchored path of an entry name
canonicalizeName(name) == SelectSeq(Split(name), LAMBDA seg : seg # << >>)

\* filepath.Clean of a path given by its segments
RECURSIVE Clean(_, _)
Clean(acc, segs) ==
    IF segs = << >>
    THEN acc
    ELSE LET seg == Head(segs)
         IN IF seg = << >> \/ seg = <<".">>
            THEN Clean(acc, Tail(segs))
            ELSE IF seg = <<".", ".">>
                 THEN Clean(IF acc = << >> THEN acc ELSE SubSeq(acc, 1, Len(acc) - 1),
                            Tail(segs))
                 ELSE Clean(Append(acc, seg), Tail(segs))

\* the directory part of a path
Dir(path) == IF path = << >> THEN path ELSE SubSeq(path, 1, Len(path) - 1)

\* the target of a link read in the directory dir
LinkTarget(dir, linkname) ==
    IF HasPrefix(linkname, <<"/">>)
    THEN Clean(<< >>, Split(linkname))
    ELSE Clean(dir, Split(linkname))

\* canonicalizeLinkname: the link name resolved against the parent of the entry
canonicalizeLinkname(anchor, name, linkname) ==
    LinkTarget(anchor \o Dir(canonicalizeName(name)), linkname)

IsSymlink(fs, path) == path \in DOMAIN fs /\ fs[path].kind = "symlink"

IsDir(fs, path) == path \in DOMAIN fs /\ fs[path] = Directory

\* the place the operating system reaches by the segments segs from the
\* directory cur, following the symbolic links it meets
RECURSIVE Walk(_, _, _, _)
Walk(fs, cur, segs, fuel) ==
    IF segs = << >>
    THEN cur
    ELSE LET seg == Head(segs)
             next == Append(cur, seg)
         IN IF seg = << >> \/ seg = <<".">>
            THEN Walk(fs, cur, Tail(segs), fuel)
            ELSE IF seg = <<".", ".">>
                 THEN Walk(fs, Dir(cur), Tail(segs), fuel)
                 ELSE IF IsSymlink(fs, next) /\ fuel > 0
                      THEN Walk(fs,
                                IF HasPrefix(fs[next].body, <<"/">>) THEN << >> ELSE cur,
                                Split(fs[next].body) \o Tail(segs), fuel - 1)
                      ELSE Walk(fs, next, Tail(segs), fuel)

Realpath(fs, path) == Walk(fs, << >>, path, Cardinality(DOMAIN fs))

\* os.Lstat: the place of a path whose last segment is not followed
Lstat(fs, path) ==
    IF path = << >> THEN path ELSE Append(Realpath(fs, Dir(path)), path[Len(path)])

\* checkPath over the segments of a directory: no symbolic link on the way
\* may lead out of the anchor
RECURSIVE checkPath(_, _, _, _)
checkPath(fs, anchor, accumulated, segs) ==
    IF segs = << >>
    THEN "none"
    ELSE LET next == Append(accumulated, Head(segs))
         IN IF IsSymlink(fs, next)
            THEN LET target == LinkTarget(accumulated, fs[next].body)
                 IN IF IsWithin(anchor, target)
                    THEN checkPath(fs, anchor, target, Tail(segs))
                    ELSE "errTraversal"
            ELSE checkPath(fs, anchor, next, Tail(segs))

\* a step of Restore gives the filesystem, an error and whether the entry was
\* restored
Outcome(fs, err) == [fs |-> fs, err |-> err]

\* the prefixes of a path, itself included
Prefixes(path) == {SubSeq(path, 1, n) : n \in 0..Len(path)}

\* os.MkdirAll of a directory
MkdirAll(fs, path) ==
    LET real == Realpath(fs, path)
    IN IF \E q \in Prefixes(real) : q \in DOMAIN fs /\ fs[q] # Directory
       THEN Outcome(fs, "ENOTDIR")
       ELSE Outcome([q \in Prefixes(real) \ DOMAIN fs |-> Directory] @@ fs, "none")

\* safeMkdirAll: the check of the path, then the directories
safeMkdirAll(fs, anchor, dirsegs) ==
    LET checked == checkPath(fs, anchor, anchor, dirsegs)
    IN IF checked # "none"
       THEN Outcome(fs, checked)
       ELSE MkdirAll(fs, anchor \o dirsegs)

restoreDirectory(fs, anchor, header) ==
    safeMkdirAll(fs, anchor, canonicalizeName(header.Name))

\* restoreRegular: the directory of the file, then the file
restoreRegular(fs, anchor, header) ==
    LET processedName == canonicalizeName(header.Name)
        made == safeMkdirAll(fs, anchor, Dir(processedName))
        file == Realpath(made.fs, anchor \o processedName)
    IN IF made.err # "none"
       THEN made
       ELSE IF IsDir(made.fs, file)
            THEN Outcome(made.fs, "EISDIR")
            ELSE Outcome((file :> RegularFile("v1")) @@ made.fs, "none")

\* the paths below a directory
Below(fs, path) == {q \in DOMAIN fs : q # path /\ HasPrefix(q, path)}

\* actuallyRestoreSymlink: what is at the place is removed, the link is made
actuallyRestoreSymlink(fs, anchor, header) ==
    LET processedName == canonicalizeName(header.Name)
        made == safeMkdirAll(fs, anchor, Dir(processedName))
        symlinkFrom == Lstat(made.fs, anchor \o processedName)
    IN IF made.err # "none"
       THEN made
       ELSE IF Below(made.fs, symlinkFrom) # {}
            THEN Outcome(made.fs, "ENOTEMPTY")
            ELSE Outcome((symlinkFrom :> Symlink(header.Linkname)) @@ made.fs, "none")

\* restoreSymlink: a link whose target is not there yet has to wait
restoreSymlink(fs, anchor, header) ==
    IF Lstat(fs, canonicalizeLinkname(anchor, header.Name, header.Linkname)) \notin DOMAIN fs
    THEN Outcome(fs, "errMissingSymlinkTarget")
    ELSE actuallyRestoreSymlink(fs, anchor, header)

\* validateEntry: the name, then the type
validateEntry(header) ==
    IF ~checkName(header.Name)
    THEN "errNameMalformed"
    ELSE IF header.Typeflag \notin {"dir", "reg", "symlink"}
         THEN "errUnsupportedFileType"
         ELSE "none"

restoreEntry(fs, anchor, header) ==
    IF validateEntry(header) # "none"
    THEN Outcome(fs, validateEntry(header))
    ELSE IF header.Typeflag = "dir"
         THEN restoreDirectory(fs, anchor, header)
         ELSE IF header.Typeflag = "reg"
              THEN restoreRegular(fs, anchor, header)
              ELSE restoreSymlink(fs, anchor, header)

\* the waiting links as a graph: from the place of a link to its target
LinkKey(anchor, header) == anchor \o canonicalizeName(header.Name)

LinkEdges(anchor, headers) ==
    { << LinkKey(anchor, headers[i]),
         canonicalizeLinkname(anchor, headers[i].Name, headers[i].Linkname) >> :
      i \in 1..Len(headers) }

\* the places reached from a set of places in at most n steps of the graph
RECURSIVE Reach(_, _, _)
Reach(edges, from, n) ==
    IF n = 0
    THEN from
    ELSE Reach(edges, from \cup {e[2] : e \in {d \in edges : d[1] \in from}}, n - 1)

\* the places of the links that lie on a cycle
OnCycle(edges) ==
    { k \in {e[1] : e \in edges} :
        k \in Reach(edges, {e[2] : e \in {d \in edges : d[1] = k}}, Cardinality(edges)) }

\* the waiting links made in the order in which the archive has them
RECURSIVE restoreAsWritten(_, _, _, _)
restoreAsWritten(fs, anchor, headers, done) ==
    IF headers = << >>
    THEN [fs |-> fs, err |-> "none", restored |-> done]
    ELSE LET made == actuallyRestoreSymlink(fs, anchor, Head(headers))
         IN IF made.err # "none"
            THEN [fs |-> made.fs, err |-> made.err, restored |-> done]
            ELSE restoreAsWritten(made.fs, anchor, Tail(headers),
                                  Append(done, Head(headers).Name))

\* the waiting links, those whose target waits as well after their target
RECURSIVE restoreInOrder(_, _, _, _)
restoreInOrder(fs, anchor, headers, done) ==
    IF headers = << >>
    THEN [fs |-> fs, err |-> "none", restored |-> done]
    ELSE LET keys == {LinkKey(anchor, headers[i]) : i \in 1..Len(headers)}
             ready == { i \in 1..Len(headers) :
                          canonicalizeLinkname(anchor, headers[i].Name, headers[i].Linkname)
                              \notin keys \ {LinkKey(anchor, headers[i])} }
             i == IF ready = {} THEN 1 ELSE CHOOSE k \in ready : \A m \in ready : k <= m
             rest == SubSeq(headers, 1, i - 1) \o SubSeq(headers, i + 1, Len(headers))
             made == actuallyRestoreSymlink(fs, anchor, headers[i])
         IN IF made.err # "none"
            THEN [fs |-> made.fs, err |-> made.err, restored |-> done]
            ELSE restoreInOrder(made.fs, anchor, rest, Append(done, headers[i].Name))

\* the header kept for each place of a link: of the waiting headers with the
\* same place the last one, in the order of the archive
RECURSIVE lookup(_, _)
lookup(anchor, headers) ==
    IF headers = << >>
    THEN << >>
    ELSE LET rest == Tail(headers)
         IN IF \E i \in 1..Len(rest) :
                   LinkKey(anchor, rest[i]) = LinkKey(anchor, Head(headers))
            THEN lookup(anchor, rest)
            ELSE <<Head(headers)>> \o lookup(anchor, rest)

\* topologicallyRestoreSymlinks: no link is made when the links have a cycle;
\* else every place of a waiting link is restored once, from the last header
\* that names it
topologicallyRestoreSymlinks(fs, anchor, headers) ==
    IF OnCycle(LinkEdges(anchor, headers)) # {}
    THEN [fs |-> fs, err |-> "errCycleDetected", restored |-> << >>]
    ELSE restoreInOrder(fs, anchor, lookup(anchor, headers), << >>)

\* an archive is opened to be restored into the empty anchor
RestoreInit ==
    /\ RunIdle
    /\ CacheIdle
    /\ NameIdle
    /\ HashIdle
    /\ CreateIdle
    /\ FlightIdle
    /\ LateIdle
    /\ archive \in Archives
    /\ anchorFs = EmptyAnchor
    /\ restorepc = "entries"
    /\ position = 0
    /\ symlinks = << >>
    /\ restored = << >>
    /\ restoreErr = "none"

\* restoreEntries, one turn of the loop: the next header is restored
RestoreEntry ==
    /\ restorepc = "entries"
    /\ position < Len(archive)
    /\ LET header == archive[position + 1]
           result == restoreEntry(anchorFs, AnchorPath, header)
       IN /\ position' = position + 1
          /\ anchorFs' = result.fs
          /\ IF result.err = "errMissingSymlinkTarget"
             THEN /\ symlinks' = Append(symlinks, header)
                  /\ UNCHANGED << restored, restoreErr, restorepc >>
             ELSE IF result.err # "none"
                  THEN /\ restoreErr' = result.err
                       /\ restorepc' = "done"
                       /\ UNCHANGED << restored, symlinks >>
                  ELSE /\ restored' = Append(restored, header.Name)
                       /\ UNCHANGED << symlinks, restoreErr, restorepc >>
    /\ UNCHANGED << archive, runVars, cacheVars, nameVars, hashVars,
                    createVars, flightVars, lateVars >>

\* restoreEntries at the end of the archive: the links that waited
RestoreSymlinks ==
    /\ restorepc = "entries"
    /\ position = Len(archive)
    /\ LET result == topologicallyRestoreSymlinks(anchorFs, AnchorPath, symlinks)
       IN /\ anchorFs' = result.fs
          /\ restored' = restored \o result.restored
          /\ restoreErr' = result.err
    /\ restorepc' = "done"
    /\ UNCHANGED << archive, position, symlinks, runVars, cacheVars, nameVars, hashVars,
                    createVars, flightVars, lateVars >>

RestoreNext == RestoreEntry \/ RestoreSymlinks

RestoreSpec == RestoreInit /\ [][RestoreNext]_vars


\* the entry Restore read last
LastRead == archive[position]

\* C12: whatever the archive, nothing is ever created outside the anchor; an
\* entry whose name has a ".." segment ends the restore with the
\* malformed-name error, and an entry whose directory is reached through a
\* link that leads out of the anchor ends it with the traversal error.
C12_NeverOutsideAnchor ==
    /\ \A q \in DOMAIN anchorFs : q = << >> \/ IsWithin(AnchorPath, q)
    /\ anchorFs[<< >>] = Directory
    /\ (restorepc = "done" /\ position > 0) =>
          /\ (\E i \in 1..Len(Split(LastRead.Name)) : Split(LastRead.Name)[i] = <<".", ".">>)
                => restoreErr = "errNameMalformed"
          /\ ( /\ checkName(LastRead.Name)
               /\ LastRead.Typeflag = "reg"
               /\ ~IsWithin(AnchorPath,
                            Realpath(anchorFs, AnchorPath \o Dir(canonicalizeName(LastRead.Name)))) )
                => restoreErr = "errTraversal"

\* the symbolic link entries of an archive
SymlinkEntries(a) == SelectSeq(a, LAMBDA header : header.Typeflag = "symlink")

\* the places that are no ends of a chain of links in vain: those of the
\* entries of the archive that are no links, the directories above them, and
\* the directories that are there before the restore
NonSymlinkPlaces(a) ==
    DOMAIN EmptyAnchor \cup
    UNION { Prefixes(AnchorPath \o canonicalizeName(a[i].Name)) :
            i \in {j \in 1..Len(a) : a[j].Typeflag \in {"dir", "reg"}} }

\* the places of the links of an archive that form a cycle: those on a closed
\* chain of links, and those whose chain of links never reaches a place that
\* is no link
CycleOf(a) ==
    LET edges == LinkEdges(AnchorPath, SymlinkEntries(a))
    IN OnCycle(edges) \cup
       { k \in {e[1] : e \in edges} :
           Reach(edges, {k}, Cardinality(edges)) \cap NonSymlinkPlaces(a) = {} }

\* C13: when the symbolic links of the archive form a cycle, a chain of
\* links that never reaches an entry that is no link, the restore ends with
\* the cycle error and no link of the cycle is ever made.
C13_CycleDetected ==
    CycleOf(archive) # {} =>
        /\ \A k \in CycleOf(archive) : ~IsSymlink(anchorFs, k)
        /\ restorepc = "done" => restoreErr = "errCycleDetected"

\* C15: after a restore that failed, nothing of the archive is left in the
\* anchor.
C15_FailedRestoreLeavesNothing ==
    (restorepc = "done" /\ restoreErr # "none") => anchorFs = EmptyAnchor


\* ------------------------------------------------ fingerprints: hashing
\* sort.Strings
RECURSIVE Insert(_, _)
Insert(x, sorted) ==
    IF sorted = << >>
    THEN <<x>>
    ELSE IF x = Head(sorted) \/ Less(x, Head(sorted))
         THEN <<x>> \o sorted
         ELSE <<Head(sorted)>> \o Insert(x, Tail(sorted))

RECURSIVE SortStrings(_)
SortStrings(list) ==
    IF list = << >> THEN << >> ELSE Insert(Head(list), SortStrings(Tail(list)))

\* for k := range m: the keys of a map in the order the runtime gives them
Range(m, iteration) == SelectSeq(iteration, LAMBDA k : k \in DOMAIN m)

\* HashMessage: the digest of the canonical bytes of a message; two digests
\* are equal when the messages are
HashMessage(msg) == <<"xxhash", msg>>

\* the entries of a map in the order of the iteration
assignHashMap(packages, iteration) ==
    LET keyStrs == Range(packages, iteration)
    IN [i \in 1..Len(keyStrs) |-> [Key |-> keyStrs[i], Value |-> packages[keyStrs[i]]]]

\* assignSortedHashMap: the entries of a map, sorted by key
assignSortedHashMap(packages, iteration) ==
    LET keyStrs == SortStrings(Range(packages, iteration))
    IN [i \in 1..Len(keyStrs) |-> [Key |-> keyStrs[i], Value |-> packages[keyStrs[i]]]]

HashFileHashes(fileHashes, iteration) ==
    HashMessage([FileHashes |-> assignSortedHashMap(fileHashes, iteration)])

\* EnvironmentVariableMap.ToHashable: the sorted pairs k=v of a map
ToHashable(evm, iteration) ==
    LET keys == Range(evm, iteration)
    IN SortStrings([i \in 1..Len(keys) |-> keys[i] \o "=" \o evm[keys[i]]])

\* the values of the variables the env of the task names
ResolvedEnv(in) ==
    [k \in {in.Env[i] : i \in 1..Len(in.Env)} |-> in.Environ[k]]

\* TaskOutputs.Sort: the inclusions and the exclusions, each in ascending order
TaskOutputsSort(to) ==
    [ Inclusions |-> SortStrings(to.Inclusions),
      Exclusions |-> SortStrings(to.Exclusions) ]

\* the outputs as the caller hands them to HashTaskHashable: TaskOutputs.Sort
\* is public and HashTaskHashable does not call it, so whether the outputs
\* were sorted first is the caller's choice, an input of the execution
OutputsGiven(in) ==
    LET to == [Inclusions |-> in.Inclusions, Exclusions |-> in.Exclusions]
    IN IF in.sortOutputs THEN TaskOutputsSort(to) ELSE to

\* the TaskHashable of an execution
TaskHashableOf(in) ==
    [ GlobalHash |-> in.GlobalHash,
      TaskDependencyHashes |-> in.TaskDependencyHashes,
      HashOfFiles |-> HashFileHashes(in.Files, in.filesIteration),
      ExternalDepsHash |-> "",
      PackageDir |-> "app",
      Task |-> in.Task,
      Outputs |-> OutputsGiven(in),
      PassThruArgs |-> in.PassThruArgs,
      Env |-> in.Env,
      ResolvedEnvVars |-> ToHashable(ResolvedEnv(in), in.envIteration),
      PassThroughEnv |-> in.PassThroughEnv,
      EnvMode |-> in.EnvMode,
      DotEnv |-> << >> ]

\* the message of HashTaskHashable: the fields are set one by one, the lists
\* as they come
TaskMessage(task) ==
                [ GlobalHash |-> task.GlobalHash,
                  PackageDir |-> task.PackageDir,
                  HashOfFiles |-> task.HashOfFiles,
                  ExternalDepsHash |-> task.ExternalDepsHash,
                  Task |-> task.Task,
                  EnvMode |-> task.EnvMode,
                  Outputs |-> [Inclusions |-> task.Outputs.Inclusions,
                               Exclusions |-> task.Outputs.Exclusions],
                  TaskDependencyHashes |-> task.TaskDependencyHashes,
                  PassThruArgs |-> task.PassThruArgs,
                  Env |-> task.Env,
                  PassThruEnv |-> task.PassThroughEnv,
                  DotEnv |-> task.DotEnv,
                  ResolvedEnvVars |-> task.ResolvedEnvVars ]

\* the panic of HashTaskHashable: no hash is returned
Panic == <<"panic", "task inferred status should have already been resolved">>

\* a task hash for every env mode
HashTaskHashableAnyMode(task) == HashMessage(TaskMessage(task))

\* HashTaskHashable: the hash of the message, or a panic for the mode infer
HashTaskHashable(task) ==
    IF task.EnvMode = "infer"
    THEN Panic
    ELSE HashMessage(TaskMessage(task))

\* the GlobalHashable of an execution
GlobalHashableOf(in) ==
    [ GlobalCacheKey |-> "key",
      GlobalFileHashMap |-> in.Files,
      RootExternalDepsHash |-> "",
      Env |-> in.Env,
      ResolvedEnvVars |-> ToHashable(ResolvedEnv(in), in.envIteration),
      PassThroughEnv |-> in.PassThroughEnv,
      EnvMode |-> in.EnvMode,
      FrameworkInference |-> FALSE,
      DotEnv |-> << >> ]

HashGlobalHashable(global, iteration) ==
    HashMessage([ GlobalCacheKey |-> global.GlobalCacheKey,
                  GlobalFileHashMap |-> assignSortedHashMap(global.GlobalFileHashMap, iteration),
                  RootExternalDepsHash |-> global.RootExternalDepsHash,
                  Env |-> global.Env,
                  ResolvedEnvVars |-> global.ResolvedEnvVars,
                  PassThroughEnv |-> global.PassThroughEnv,
                  EnvMode |-> global.EnvMode,
                  FrameworkInference |-> global.FrameworkInference,
                  DotEnv |-> global.DotEnv ])

\* ------------------------------------------------- fingerprints: exec
\* fs.HashObject: the hash of a value; two hashes are equal when the values are
HashObject(hashable) == <<"HashObject", hashable>>

\* what fs.HashObject returns next to an error: the empty key
NoHash == << >>

\* exec: the outputs of the task, the log first
outputsOf(in) == <<".turbo/turbo-build.log">> \o in.Inclusions

\* the pairs of every variable of the host
hashableEnvPairsOfEnviron(in) ==
    LET names == <<"A", "B", "P", "S">>
    IN [i \in 1..Len(names) |-> names[i] \o "=" \o in.Environ[names[i]]]

\* exec: the pairs of the variables that dependsOn names, as it names them
hashableEnvPairs(in) ==
    [i \in 1..Len(in.Env) |-> in.Env[i] \o "=" \o in.Environ[in.Env[i]]]

\* exec: the value that is hashed
hashableOf(in) ==
    [ Hash |-> in.PackHash,
      Task |-> in.Task,
      Outputs |-> outputsOf(in),
      PassThruArgs |-> in.PassThruArgs,
      HashableEnvPairs |-> hashableEnvPairs(in) ]

\* exec: cmd.Env, the environment of the host and TURBO_HASH after it
cmdEnv(in, hash) == ("TURBO_HASH" :> hash) @@ in.Environ

\* the key of the put that is the hash of the package
PutKeyOfPackage(in, e) == in.PackHash

\* exec: the key given to turboCache.Put
PutKey(in, e) == e.hash

\* two executions are given their inputs, which differ in two places at most
HashInit ==
    /\ RunIdle
    /\ CacheIdle
    /\ NameIdle
    /\ RestoreIdle
    /\ CreateIdle
    /\ FlightIdle
    /\ LateIdle
    /\ \E a \in Vary(DefaultInput) :
          \E b \in Vary(a) : hashInputs = [a |-> a, b |-> b]
    /\ exec = [a |-> NotStarted, b |-> NotStarted]

Sides == {"a", "b"}

HashUnchanged ==
    UNCHANGED << hashInputs, runVars, cacheVars, nameVars, restoreVars,
                 createVars, flightVars, lateVars >>

\* the task and global fingerprints of an execution are computed
Fingerprint(side) ==
    /\ exec[side].taskHash = << >>
    /\ exec' = [exec EXCEPT
          ![side].taskHash = HashTaskHashable(TaskHashableOf(hashInputs[side])),
          ![side].globalHash =
              HashGlobalHashable(GlobalHashableOf(hashInputs[side]),
                                 hashInputs[side].filesIteration)]
    /\ HashUnchanged

\* exec: the hash of the task; fs.HashObject may return an error, and then
\* the empty key: the error is reported to the terminal and exec goes on
ExecHash(side) ==
    /\ exec[side].pc = "start"
    /\ \E err \in BOOLEAN :
          exec' = [exec EXCEPT
              ![side].pc = "hashed",
              ![side].hashErr = err,
              ![side].hash = IF err THEN NoHash
                             ELSE HashObject(hashableOf(hashInputs[side]))]
    /\ HashUnchanged

\* exec: turboCache.Fetch with the hash, a hit or a miss
ExecFetch(side) ==
    /\ exec[side].pc = "hashed"
    /\ \E hit \in BOOLEAN :
          exec' = [exec EXCEPT ![side].pc = IF hit THEN "hit" ELSE "miss",
                                  ![side].fetchKey = exec[side].hash]
    /\ HashUnchanged

\* exec: the command is started
ExecSpawn(side) ==
    /\ exec[side].pc = "miss"
    /\ exec' = [exec EXCEPT ![side].pc = "spawned",
                            ![side].childEnv = cmdEnv(hashInputs[side], exec[side].hash)]
    /\ HashUnchanged

\* exec: the command has ended well, its outputs are put
ExecPut(side) ==
    /\ exec[side].pc = "spawned"
    /\ exec' = [exec EXCEPT ![side].pc = "put",
                            ![side].putKey = PutKey(hashInputs[side], exec[side])]
    /\ HashUnchanged

HashNext ==
    \E side \in Sides :
        \/ Fingerprint(side)
        \/ ExecHash(side)
        \/ ExecFetch(side)
        \/ ExecSpawn(side)
        \/ ExecPut(side)

HashSpec == HashInit /\ [][HashNext]_vars


\* the fingerprints of an execution have been computed
Computed(side) == exec[side].taskHash # << >>

\* exec has computed the hash of an execution
Hashed(side) == exec[side].pc # "start" /\ ~exec[side].hashErr

\* what an execution is given, the order of map iteration aside
Given == DOMAIN DefaultInput \ {"filesIteration", "envIteration"}

\* the two executions are given the same but for the inputs named
SameBut(fields) ==
    \A f \in Given \ fields : hashInputs.a[f] = hashInputs.b[f]

Elements(list) == {list[i] : i \in 1..Len(list)}

\* the keys of a serialized map ascend
Ascends(entries) ==
    \A i \in 1..(Len(entries) - 1) : Less(entries[i].Key, entries[i + 1].Key)

\* C16: two computations from equal inputs give the same task fingerprint and
\* the same global fingerprint, whatever the order in which the runtime
\* iterates over the file-hash map and the env map; the entries of the
\* file-hash map are serialized with ascending keys.
C16_FingerprintDeterministic ==
    /\ (Computed("a") /\ Computed("b") /\ SameBut({}))
          => /\ exec.a.taskHash = exec.b.taskHash
             /\ exec.a.globalHash = exec.b.globalHash
    /\ \A side \in Sides :
          Computed(side) =>
             /\ Ascends(exec[side].globalHash[2].GlobalFileHashMap)
             /\ Ascends(HashFileHashes(hashInputs[side].Files,
                                       hashInputs[side].filesIteration)[2].FileHashes)

\* both fingerprints were computed from equal inputs with the file-hash map
\* iterated in two different orders
C16_Witness ==
    /\ Computed("a") /\ Computed("b")
    /\ SameBut({})
    /\ hashInputs.a.filesIteration # hashInputs.b.filesIteration

\* the inputs that the fingerprint is said to sort
SortedInputs ==
    {"Inclusions", "Exclusions", "TaskDependencyHashes", "Env", "PassThroughEnv"}

\* C17: two executions whose outputs inclusions, outputs exclusions,
\* task-dependency fingerprints, env list, pass-through env list and resolved
\* env pairs hold the same elements in a different order have the same task
\* fingerprint.
C17_OrderIndependent ==
    ( /\ Computed("a") /\ Computed("b")
      /\ SameBut(SortedInputs)
      /\ \A f \in SortedInputs :
            /\ Elements(hashInputs.a[f]) = Elements(hashInputs.b[f])
            /\ Len(hashInputs.a[f]) = Len(hashInputs.b[f]) )
    => exec.a.taskHash = exec.b.taskHash

\* the variables of the host whose value the two executions do not share
ValuesDiffer == {v \in HostVars : hashInputs.a.Environ[v] # hashInputs.b.Environ[v]}

\* the two executions differ at most in what they pass through
DifferInPassThrough ==
    /\ SameBut({"PassThruArgs", "PassThroughEnv", "Environ"})
    /\ ValuesDiffer \subseteq
          Elements(hashInputs.a.PassThroughEnv) \cup Elements(hashInputs.b.PassThroughEnv)

\* the task fingerprint of an execution is a hash
Fingerprinted(side) == Computed(side) /\ exec[side].taskHash # Panic

\* C18 as stated: two executions that differ only in their pass-through
\* arguments or pass-through environment have the same task fingerprint.
C18_PassThroughNotHashed ==
    (Fingerprinted("a") /\ Fingerprinted("b") /\ Hashed("a") /\ Hashed("b") /\ DifferInPassThrough)
    => /\ exec.a.taskHash = exec.b.taskHash
       /\ exec.a.hash = exec.b.hash

\* C18, amended: the pass-through arguments and the names of the pass-through
\* variables are inputs of the fingerprint; what stays out of it is the value
\* of every host variable that the env of the task does not name, the
\* pass-through variables included.
C18_UnnamedValuesNotHashed ==
    (Fingerprinted("a") /\ Fingerprinted("b") /\ Hashed("a") /\ Hashed("b")) =>
        /\ ( /\ SameBut({"Environ"})
             /\ ValuesDiffer \cap Elements(hashInputs.a.Env) = {} )
           => /\ exec.a.taskHash = exec.b.taskHash
              /\ exec.a.hash = exec.b.hash
        /\ hashInputs.a.PassThruArgs # hashInputs.b.PassThruArgs
           => /\ exec.a.taskHash # exec.b.taskHash
              /\ exec.a.hash # exec.b.hash
        /\ hashInputs.a.PassThroughEnv # hashInputs.b.PassThroughEnv
           => exec.a.taskHash # exec.b.taskHash

\* two executions that differ only in the value of the pass-through variable
\* P were both hashed
C18_Witness ==
    /\ Fingerprinted("a") /\ Fingerprinted("b") /\ Hashed("a") /\ Hashed("b")
    /\ SameBut({"Environ"})
    /\ ValuesDiffer = {"P"}

\* C19: in strict env mode the process of the task sees only the variables
\* of the env and pass-through env of the task, the platform essentials and
\* TURBO_HASH.
C19_StrictEnvOnlyListed ==
    \A side \in Sides :
        (exec[side].pc \in {"spawned", "put"} /\ hashInputs[side].EnvMode = "strict")
        => DOMAIN exec[side].childEnv \subseteq
              Elements(hashInputs[side].Env) \cup Elements(hashInputs[side].PassThroughEnv)
                 \cup PlatformEssentials \cup {"TURBO_HASH"}

\* C20: the hash of an execution is computed once, from what the execution is
\* given, and that value is the key of the fetch, the value of TURBO_HASH in
\* the environment of the process and the key of the put.
C20_OneHashEverywhere ==
    \A side \in Sides :
        /\ Hashed(side) => exec[side].hash = HashObject(hashableOf(hashInputs[side]))
        /\ exec[side].pc \in {"hit", "miss", "spawned", "put"}
              => exec[side].fetchKey = exec[side].hash
        /\ exec[side].pc \in {"spawned", "put"}
              => exec[side].childEnv["TURBO_HASH"] = exec[side].hash
        /\ exec[side].pc = "put" => exec[side].putKey = exec[side].hash

\* an execution missed the cache, ran its command and put its outputs
C20_Witness ==
    /\ exec.a.pc = "put"
    /\ exec.a.putKey # << >>
    /\ exec.a.fetchKey = exec.a.putKey

\* the places of a name in the returned list
Restored(name) == {k \in 1..Len(restored) : restored[k] = name}

\* the entries of the archive at the place that the link of entry i names
TargetEntries(i) ==
    { j \in 1..Len(archive) \ {i} :
        LinkKey(AnchorPath, archive[j]) =
            canonicalizeLinkname(AnchorPath, archive[i].Name, archive[i].Linkname) }

\* the waiting headers that a later waiting header of the same place replaces
Clobbered == Len(symlinks) - Len(lookup(AnchorPath, symlinks))

\* C29: every name of the returned list stands there for an entry that, when
\* it is a link whose target is an entry of the archive, was restored after
\* that entry, wherever the two stand in the archive; a restore that ends
\* without error has restored every name of the archive, each place of a
\* waiting link once; the returned list has the names in the order in which
\* they were restored.
C29_SymlinkAfterTarget ==
    /\ \A k \in 1..Len(restored) :
          \E i \in 1..Len(archive) :
             /\ archive[i].Name = restored[k]
             /\ archive[i].Typeflag = "symlink" =>
                   \A j \in TargetEntries(i) :
                      \E l \in Restored(archive[j].Name) : l < k
    /\ (restorepc = "done" /\ restoreErr = "none") =>
          /\ Len(restored) = Len(archive) - Clobbered
          /\ \A i \in 1..Len(archive) : Restored(archive[i].Name) # {}

\* the chain u -> t -> r, written links first, was restored from its end
C29_Witness ==
    /\ restorepc = "done"
    /\ restoreErr = "none"
    /\ Len(archive) = 3
    /\ archive[1].Name = <<"u">> /\ archive[2].Name = <<"t">> /\ archive[3].Name = <<"r">>
    /\ restored = << <<"r">>, <<"t">>, <<"u">> >>
    /\ IsSymlink(anchorFs, AnchorPath \o << <<"u">> >>)

\* C31: the task fingerprint of an execution whose env mode is infer is a
\* panic and no hash; for loose and strict it is a hash that holds the
\* mode; the global fingerprint is a hash for all three modes.
C31_NoTaskHashForInfer ==
    \A side \in Sides :
        Computed(side) =>
            /\ hashInputs[side].EnvMode = "infer" <=> exec[side].taskHash = Panic
            /\ hashInputs[side].EnvMode \in {"loose", "strict"} =>
                  /\ exec[side].taskHash[1] = "xxhash"
                  /\ exec[side].taskHash[2].EnvMode = hashInputs[side].EnvMode
            /\ exec[side].globalHash[1] = "xxhash"
            /\ exec[side].globalHash[2].EnvMode = hashInputs[side].EnvMode

\* the fingerprints were computed for the mode loose on one side and for
\* the mode infer on the other
C31_Witness ==
    /\ Computed("a") /\ Computed("b")
    /\ hashInputs.b.EnvMode = "infer" /\ exec.b.taskHash = Panic
    /\ exec.b.globalHash # Panic
    /\ hashInputs.a.EnvMode = "loose" /\ exec.a.taskHash # Panic

\* C25: when the hash of a task cannot be computed the task is aborted: no
\* fetch, no command and no put follow, and none under the empty key.
C25_HashErrorAborts ==
    \A side \in Sides :
        exec[side].hashErr =>
            /\ exec[side].pc \notin {"hit", "miss", "spawned", "put"}
            /\ exec[side].childEnv = << >>
            /\ exec[side].putKey = << >>

\* ============================ the run: cache flags, cancellation, skipping
\* the resolved definition of the task says cache=false
CacheDisabled(id) ==
    HasDefinition(pipeline, id) /\ DefinitionOf(pipeline, id).Cache = "false"

\* the package.json of the task's package has a script of the task's name
HasScript(id) == id[2] \in scripts[id[1]]

\* C21: with --force no task reads the cache and none ends cached; every
\* task whose package has the script and whose visit returned while the
\* process manager was open has spawned its command.
C21_ForceBypassesCache ==
    opts.forceExecution =>
        \A id \in TaskIds :
            /\ fetched[id] = "none"
            /\ runState.state[id] # "cached"
            /\ (Returned(id) /\ HasScript(id) /\ ~procDone)
                  => id \in spawned

C21_Witness ==
    /\ runpc = "done"
    /\ opts.forceExecution
    /\ Cardinality(spawned) >= 2
    /\ \A id \in Nodes : HasScript(id) => runState.state[id] = "built"

\* C22: under --no-cache, and for a task whose definition has cache=false,
\* no artifact is put in the cache, whatever the outcome of the task.
C22_NoCacheNeverPuts ==
    \A id \in TaskIds :
        (Walked /\ (~opts.cache \/ CacheDisabled(id))) => id \notin puts

C22_Witness ==
    /\ runpc = "done"
    /\ puts # {}
    /\ \E id \in Nodes :
          CacheDisabled(id) /\ runState.state[id] = "built" /\ id \notin puts

\* C23: a task whose child was stopped because the run is being cancelled
\* ends with the status buildFailed.
C23_CancelledEndsFailed ==
    \A id \in spawned :
        (pc[id] = "nil" /\ runState.state[id] # "built")
            => runState.state[id] = "buildFailed"

\* C26: a task of the task graph whose package has no such script is
\* skipped: nothing is spawned, the cache is neither read nor written, and
\* the run state never hears of the task.
C26_MissingScriptSkipped ==
    \A id \in TaskIds :
        (Walked /\ ~HasScript(id)) =>
            /\ id \notin spawned
            /\ fetched[id] = "none"
            /\ id \notin puts
            /\ runState.state[id] = "none"
            /\ pc[id] \in {"absent", "waiting", "upstream", "nil"}

C26_Witness ==
    /\ runpc = "done"
    /\ \E id \in Nodes : ~HasScript(id) /\ pc[id] = "nil"
    /\ \E id \in Nodes : id \in spawned
    /\ runState.Attempted = Cardinality(spawned)

\* C27: a task whose definition has cache=false never reads the cache and is
\* never restored from it.
C27_CacheFalseNeverFetches ==
    \A id \in TaskIds :
        CacheDisabled(id) => fetched[id] = "none" /\ runState.state[id] # "cached"

\* the pairs <<persistent task, dependent>> whose persistent task is not
\* implemented by its package
UnimplementedPairs ==
    { <<b, a>> \in TaskIds \X TaskIds :
        /\ a \in engine.nodes /\ b \in engine.nodes
        /\ b \in DeclaredDeps(a)
        /\ HasDefinition(pipeline, b)
        /\ DefinitionOf(pipeline, b).Persistent
        /\ ~HasScript(b) }

\* C28: a dependency on a persistent task that its package does not
\* implement is no error: it is not among the pairs the engine rejects, the
\* engine fails for persistent tasks only when an implemented one has a
\* dependent, and in a run that completed without failure the dependent
\* task was executed.
C28_UnimplementedPersistentAllowed ==
    (runpc # "start") =>
        /\ UnimplementedPairs \cap engine.pairs = {}
        /\ engine.err = "persistent" => PersistentPairs # {}
        /\ \A x \in UnimplementedPairs :
              (Completed /\ errs = {} /\ ~procDone /\ HasScript(x[2]))
                 => runState.state[x[2]] \in TerminalStatuses

C28_Witness ==
    /\ Completed
    /\ \E x \in UnimplementedPairs :
          /\ x[1] \in Nodes /\ pc[x[1]] = "nil" /\ runState.state[x[1]] = "none"
          /\ x[2] \in spawned /\ runState.state[x[2]] = "built"

\* ======================================= cache archives: Create and AddFile
\* what os.Lstat tells of a file, with what os.Readlink tells of a link
FileInfo(kind, size, uid, gid, time, link) ==
    [ kind |-> kind, Size |-> size, Uid |-> uid, Gid |-> gid,
      AccessTime |-> time + 2, ModTime |-> time, ChangeTime |-> time + 1,
      link |-> link ]

\* time.Unix(0, 0)
Epoch == 0

\* The directory a cache item is created from: anchored paths, as sequences
\* of segments, and the file at each. No file is at <<"gone">>.
SourceFiles ==
    (<<"dist">> :> FileInfo("dir", 0, 501, 20, 1700, "")) @@
    (<<"dist", "out">> :> FileInfo("reg", 5, 501, 20, 1710, "")) @@
    (<<"empty">> :> FileInfo("reg", 0, 0, 0, Epoch, "")) @@
    (<<"link">> :> FileInfo("symlink", 8, 0, 20, 1720, "dist/out")) @@
    (<<"pipe">> :> FileInfo("fifo", 0, 501, 20, 1730, "")) @@
    (<<"tty">> :> FileInfo("char", 0, 0, 0, 1740, ""))

SourcePaths == DOMAIN SourceFiles \cup { <<"gone">> }

\* what may go wrong in a call, should the call get there
Faults == {"none", "readlink", "write", "copy"}

\* a cache item takes at most MaxAdds calls
MaxAdds == 2

\* AnchoredSystemPath.Move: the path below another anchor
Move(filePath, cacheAnchor) == <<cacheAnchor>> \o filePath

\* ToUnixPath: the segments with a slash between them
RECURSIVE ToUnixPath(_)
ToUnixPath(path) ==
    IF Len(path) <= 1
    THEN path
    ELSE <<Head(path), "/">> \o ToUnixPath(Tail(path))

\* the type flag of the header of a file of a kind
TypeflagOf(kind) ==
    CASE kind = "reg" -> "TypeReg"
      [] kind = "dir" -> "TypeDir"
      [] kind = "symlink" -> "TypeSymlink"
      [] kind = "fifo" -> "TypeFifo"
      [] OTHER -> "TypeChar"

\* FileInfoHeader: the header of a file, under the name it is given
FileInfoHeader(name, fileInfo, link) ==
    [ Name |-> name,
      Typeflag |-> TypeflagOf(fileInfo.kind),
      Linkname |-> link,
      Size |-> IF fileInfo.kind = "reg" THEN fileInfo.Size ELSE 0,
      Uid |-> fileInfo.Uid, Gid |-> fileInfo.Gid,
      AccessTime |-> fileInfo.AccessTime,
      ModTime |-> fileInfo.ModTime,
      ChangeTime |-> fileInfo.ChangeTime ]

\* addFile giving every header to the writer
SupportedAny(header) == TRUE

\* addFile: the types a cache item may hold
Supported(header) == header.Typeflag \in {"TypeReg", "TypeDir", "TypeSymlink"}

\* addFile leaving the times of the file in the header
ConsistentOwner(header) == [header EXCEPT !.Uid = 0, !.Gid = 0]

\* addFile, "Consistent creation": no owner, and the epoch for every time
Consistent(header) ==
    [header EXCEPT !.Uid = 0, !.Gid = 0,
                   !.AccessTime = Epoch, !.ModTime = Epoch, !.ChangeTime = Epoch]

\* addFile: the headers the writer has been given after the call, and what
\* the call returns
addFile(tw, cacheAnchor, fsys, filePath, fault) ==
    IF filePath \notin DOMAIN fsys
    THEN [tw |-> tw, err |-> "lstatErr"]
    ELSE LET fileInfo == fsys[filePath]
             isLink == fileInfo.kind = "symlink"
             link == IF isLink THEN fileInfo.link ELSE ""
             cacheDestinationName == ToUnixPath(Move(filePath, cacheAnchor))
             header == FileInfoHeader(cacheDestinationName, fileInfo, link)
         IN IF isLink /\ fault = "readlink"
            THEN [tw |-> tw, err |-> "readlinkErr"]
            ELSE IF ~Supported(header)
            THEN [tw |-> tw, err |-> "errUnsupportedFileType"]
            ELSE IF fault = "write"
            THEN [tw |-> tw, err |-> "writeErr"]
            ELSE IF header.Typeflag = "TypeReg" /\ header.Size > 0 /\ fault = "copy"
            THEN [tw |-> Append(tw, Consistent(header)), err |-> "copyErr"]
            ELSE [tw |-> Append(tw, Consistent(header)), err |-> "nil"]

\* Create: a cache item nothing was added to
CreateInit ==
    /\ RunIdle
    /\ CacheIdle
    /\ NameIdle
    /\ RestoreIdle
    /\ HashIdle
    /\ FlightIdle
    /\ LateIdle
    /\ source = SourceFiles
    /\ item = [tw |-> << >>, calls |-> << >>]

\* the cache item after a call: the headers written, and the call with what
\* it returned and the number of headers before it
Called(cacheAnchor, filePath, fault) ==
    LET result == addFile(item.tw, cacheAnchor, source, filePath, fault)
    IN [ tw |-> result.tw,
         calls |-> Append(item.calls,
                          [ anchor |-> cacheAnchor, path |-> filePath,
                            err |-> result.err, before |-> Len(item.tw) ]) ]

CreateUnchanged ==
    UNCHANGED << source, runVars, cacheVars, nameVars, restoreVars, hashVars,
                 flightVars, lateVars >>

\* CacheItem.AddMetadata
AddMetadata(filePath, fault) ==
    /\ Len(item.calls) < MaxAdds
    /\ item' = Called("metadata", filePath, fault)
    /\ CreateUnchanged

\* CacheItem.AddFile
AddFile(filePath, fault) ==
    /\ Len(item.calls) < MaxAdds
    /\ item' = Called("cache", filePath, fault)
    /\ CreateUnchanged

CreateNext ==
    \E filePath \in SourcePaths, fault \in Faults :
        \/ AddMetadata(filePath, fault)
        \/ AddFile(filePath, fault)

CreateSpec == CreateInit /\ [][CreateNext]_vars

\* the calls that were made, and the header a call wrote, if it wrote one
Calls == 1..Len(item.calls)

Wrote(i) ==
    IF i < Len(item.calls)
    THEN item.calls[i + 1].before > item.calls[i].before
    ELSE Len(item.tw) > item.calls[i].before

\* C30: every header a cache item was given is of a regular file, a
\* directory or a symlink, is named below cache/ when AddFile gave it and
\* below metadata/ when AddMetadata did, and has uid 0, gid 0 and the epoch
\* as its three times; a call for a file of another type returns
\* errUnsupportedFileType and gives no header.
C30_HeadersNormalized ==
    /\ \A k \in 1..Len(item.tw) :
          /\ item.tw[k].Typeflag \in {"TypeReg", "TypeDir", "TypeSymlink"}
          /\ item.tw[k].Uid = 0 /\ item.tw[k].Gid = 0
          /\ item.tw[k].AccessTime = Epoch
          /\ item.tw[k].ModTime = Epoch
          /\ item.tw[k].ChangeTime = Epoch
    /\ \A i \in Calls :
          LET call == item.calls[i]
          IN /\ Wrote(i) =>
                  /\ HasPrefix(item.tw[call.before + 1].Name, <<call.anchor, "/">>)
                  /\ call.anchor \in {"cache", "metadata"}
                  /\ Split(item.tw[call.before + 1].Name)
                        = [j \in 1..(Len(call.path) + 1) |->
                              IF j = 1 THEN <<call.anchor>> ELSE <<call.path[j - 1]>>]
             /\ ( /\ call.path \in DOMAIN source
                  /\ source[call.path].kind \notin {"reg", "dir", "symlink"} )
                  => call.err = "errUnsupportedFileType" /\ ~Wrote(i)

\* a directory that is owned by a user went into the item through AddFile,
\* and a fifo was refused by AddMetadata
C30_Witness ==
    /\ Len(item.calls) = 2
    /\ item.calls[1].anchor = "cache" /\ item.calls[1].path = <<"dist">>
    /\ item.calls[1].err = "nil"
    /\ item.calls[2].anchor = "metadata" /\ item.calls[2].path = <<"pipe">>
    /\ item.calls[2].err = "errUnsupportedFileType"
    /\ Len(item.tw) = 1

\* ================================== the local cache: runs that share a key
\* Two runs of turbo use one cache directory and come to the same hash; each
\* calls Put and Fetch of fsCache with it.
Runs == {"r1", "r2"}

\* the files of the task, relative to the package
FlightFiles == {"out", "log"}

\* a run makes at most MaxCalls calls
MaxCalls == 2

NoFile == "none"

Idle == [pc |-> "idle", fileQueue |-> {}, calls |-> 0, replaced |-> FALSE]

FlightInit ==
    /\ RunIdle
    /\ CacheIdle
    /\ NameIdle
    /\ RestoreIdle
    /\ HashIdle
    /\ CreateIdle
    /\ LateIdle
    /\ cachedFolder = [f \in FlightFiles |-> NoFile]
    /\ workers = [w \in Runs |-> Idle]

FlightUnchanged ==
    UNCHANGED << runVars, cacheVars, nameVars, restoreVars, hashVars, createVars,
                 lateVars >>

\* fsCache.Put is called: the files are sent to the file queue
PutCalled(w, files) ==
    /\ workers[w].pc = "idle"
    /\ workers[w].calls < MaxCalls
    /\ files # {}
    /\ workers' = [workers EXCEPT ![w].pc = "putting", ![w].fileQueue = files]
    /\ UNCHANGED cachedFolder
    /\ FlightUnchanged

\* fsCache.Put, a digester takes a file from the queue: the file is copied
\* to <cacheDirectory>/<hash>/<rel>, over what is there
Digest(w, file) ==
    /\ workers[w].pc = "putting"
    /\ file \in workers[w].fileQueue
    /\ cachedFolder' = [cachedFolder EXCEPT ![file] = w]
    /\ workers' = [workers EXCEPT
          ![w].fileQueue = workers[w].fileQueue \ {file},
          ![w].replaced = workers[w].replaced \/ cachedFolder[file] \notin {NoFile, w}]
    /\ FlightUnchanged

\* fsCache.Put: the queue is closed and empty, g.Wait returns
PutReturns(w) ==
    /\ workers[w].pc = "putting"
    /\ workers[w].fileQueue = {}
    /\ workers' = [workers EXCEPT ![w].pc = "idle", ![w].calls = workers[w].calls + 1]
    /\ UNCHANGED cachedFolder
    /\ FlightUnchanged

\* fsCache.Fetch is called: a miss when the folder of the hash is not there,
\* else the folder is copied into place
FetchCalled(w) ==
    /\ workers[w].pc = "idle"
    /\ workers[w].calls < MaxCalls
    /\ workers' = [workers EXCEPT
          ![w].pc = IF \E f \in FlightFiles : cachedFolder[f] # NoFile
                    THEN "fetching" ELSE "idle",
          ![w].calls = IF \E f \in FlightFiles : cachedFolder[f] # NoFile
                       THEN workers[w].calls ELSE workers[w].calls + 1]
    /\ UNCHANGED cachedFolder
    /\ FlightUnchanged

\* fsCache.Fetch: the copy has ended
FetchReturns(w) ==
    /\ workers[w].pc = "fetching"
    /\ workers' = [workers EXCEPT ![w].pc = "idle", ![w].calls = workers[w].calls + 1]
    /\ UNCHANGED cachedFolder
    /\ FlightUnchanged

FlightNext ==
    \E w \in Runs :
        \/ \E files \in SUBSET FlightFiles : PutCalled(w, files)
        \/ \E file \in FlightFiles : Digest(w, file)
        \/ PutReturns(w)
        \/ FetchCalled(w)
        \/ FetchReturns(w)

FlightSpec == FlightInit /\ [][FlightNext]_vars

\* C24: at no moment are two puts of the key in progress, a fetch of the key
\* does not go on while a put of it does, and no run has replaced a file
\* that the other run put under the key.
C24_SingleFlight ==
    /\ Cardinality({w \in Runs : workers[w].pc = "putting"}) <= 1
    /\ (\E w \in Runs : workers[w].pc = "putting")
          => \A v \in Runs : workers[v].pc # "fetching"
    /\ \A w \in Runs : ~workers[w].replaced

\* ========================================================== the Spaces client
\* everything but the models that stand alone is idle
EarlyIdle ==
    /\ RunIdle /\ CacheIdle /\ NameIdle /\ RestoreIdle /\ HashIdle
    /\ CreateIdle /\ FlightIdle

\* The requests a run queues: createRun, postTask and finishRun, each by the
\* function of its name. A run creates its run once at most.
RequestKinds == {"createRun", "postTask", "finishRun"}

\* a run queues at most MaxRequests requests before it calls Close
MaxRequests == 3

Plans ==
    { plan \in UNION {[1..n -> RequestKinds] : n \in 1..MaxRequests} :
        Cardinality({i \in 1..Len(plan) : plan[i] = "createRun"}) <= 1 }

\* what the API does with a request: it fails, answers nothing, answers
\* what cannot be read, or answers the run
Answers == {"error", "empty", "garbled", "ok"}

\* where a request that start has handed to dequeueRequest is: before the
\* call of the API, waiting for its answer, or appending to c.errors
NoStage == [stage |-> "start", seen |-> {}, close |-> FALSE]

\* newSpacesClient, go c.start(): nothing was queued
SpacesInit ==
    /\ EarlyIdle /\ ArgsIdle
    /\ DaemonIdle /\ LockIdle /\ CopyIdle /\ LedgerIdle /\ PutIdle
    /\ \E plan \in Plans, linked \in BOOLEAN :
          spaces = [ plan |-> plan, linked |-> linked, queued |-> 0,
                     caller |-> "queueing",
                     closed |-> FALSE, loop |-> "first",
                     firstRequestStarted |-> FALSE, pending |-> << >>,
                     running |-> {}, created |-> FALSE, runID |-> "",
                     wg |-> 0, api |-> << >>, errors |-> {}, failed |-> {},
                     at |-> [i \in 1..Len(plan) |-> NoStage],
                     done |-> [i \in 1..Len(plan) |-> 0] ]

SpacesUnchanged ==
    UNCHANGED << earlyVars, argState, turbod, pidLock, copyState, ledger, putState >>

\* start sending every request as it comes
HoldsNothing(started) == FALSE

\* start, the FirstRequest loop: a request is held when one was started
Holds(started) == started

\* queueRequest, and start receiving the request from the channel: the first
\* request is made right away, later ones are held until the run is created,
\* and after the FirstRequest loop every request is made as it comes
QueueRequest ==
    /\ spaces.caller = "queueing"
    /\ spaces.queued < Len(spaces.plan)
    /\ spaces.loop # "ended"
    /\ LET req == spaces.queued + 1
           held == spaces.loop = "first" /\ Holds(spaces.firstRequestStarted)
       IN spaces' = [spaces EXCEPT
              !.queued = req,
              !.wg = spaces.wg + 1,
              !.firstRequestStarted = TRUE,
              !.pending = IF held THEN Append(spaces.pending, req) ELSE spaces.pending,
              !.running = IF held THEN spaces.running ELSE spaces.running \cup {req}]
    /\ SpacesUnchanged

\* start, case <-c.run.created: the held requests are made and the
\* FirstRequest loop is left
RunCreated ==
    /\ spaces.loop = "first"
    /\ spaces.created
    /\ spaces' = [spaces EXCEPT
          !.loop = "rest",
          !.pending = << >>,
          !.running = spaces.running \cup {spaces.pending[i] : i \in 1..Len(spaces.pending)}]
    /\ SpacesUnchanged

\* start, the loop over c.requests ends when the channel is closed. (In the
\* FirstRequest loop a closed channel gives nil, and the loop goes on.)
StartReturns ==
    /\ spaces.loop = "rest"
    /\ spaces.closed
    /\ spaces' = [spaces EXCEPT !.loop = "ended"]
    /\ SpacesUnchanged

\* makeURL of postTask and finishRun fails without the id of the run
NeedsRunID(kind) == kind # "createRun"

\* dequeueRequest returns: the deferred wg.Done
Dequeued(c, req) ==
    [c EXCEPT !.running = c.running \ {req},
              !.wg = c.wg - 1,
              !.done[req] = c.done[req] + 1]

\* c.errors = append(c.errors, err), its first half: the slice is read.
\* Nothing guards c.errors, so that the appends of two requests interleave.
ReadsErrors(c, req, close) ==
    [c EXCEPT !.at[req] = [stage |-> "appending", seen |-> c.errors, close |-> close],
              !.failed = c.failed \cup {req}]

\* makeRequest up to the call of the API: an error of makeURL, or a
\* repository that is not linked, is appended to c.errors; else the request
\* is sent with JSONPost or JSONPatch
MakeRequest(req) ==
    /\ req \in spaces.running
    /\ spaces.at[req].stage = "start"
    /\ LET noURL == NeedsRunID(spaces.plan[req]) /\ spaces.runID = ""
       IN spaces' =
             IF noURL \/ ~spaces.linked
             THEN ReadsErrors(spaces, req, FALSE)
             ELSE [spaces EXCEPT
                      !.at[req].stage = "sent",
                      !.api = Append(spaces.api, [req |-> req, created |-> spaces.created])]
    /\ SpacesUnchanged

\* makeRequest after the call of the API: reqErr is appended to c.errors;
\* else onDone of createRun returns for a nil response, reads the run from
\* the response and closes run.created, also when it cannot be read
ApiAnswers(req, answer) ==
    /\ req \in spaces.running
    /\ spaces.at[req].stage = "sent"
    /\ LET onDone == spaces.plan[req] = "createRun"
       IN spaces' =
             IF answer = "error" THEN ReadsErrors(spaces, req, FALSE)
             ELSE IF ~onDone \/ answer = "empty" THEN Dequeued(spaces, req)
             ELSE IF answer = "garbled" THEN ReadsErrors(spaces, req, TRUE)
             ELSE [Dequeued(spaces, req) EXCEPT !.runID = "run1", !.created = TRUE]
    /\ SpacesUnchanged

\* c.errors = append(c.errors, err), its second half: the slice that was
\* read, with the error after it, is written; then makeRequest returns, or
\* onDone goes on to close(c.run.created)
AppendsError(req) ==
    /\ req \in spaces.running
    /\ spaces.at[req].stage = "appending"
    /\ spaces' = [Dequeued(spaces, req) EXCEPT
          !.errors = spaces.at[req].seen \cup {req},
          !.created = spaces.created \/ spaces.at[req].close]
    /\ SpacesUnchanged

\* Close: the channel is closed, then the wait group is waited for
SpacesClose ==
    /\ spaces.caller = "queueing"
    /\ spaces.queued = Len(spaces.plan)
    /\ spaces' = [spaces EXCEPT !.closed = TRUE, !.caller = "waiting"]
    /\ SpacesUnchanged

\* Close: wg.Wait returns
SpacesCloseReturns ==
    /\ spaces.caller = "waiting"
    /\ spaces.wg = 0
    /\ spaces' = [spaces EXCEPT !.caller = "returned"]
    /\ SpacesUnchanged

SpacesNext ==
    \/ QueueRequest
    \/ RunCreated
    \/ StartReturns
    \/ \E req \in 1..MaxRequests : MakeRequest(req)
    \/ \E req \in 1..MaxRequests, answer \in Answers : ApiAnswers(req, answer)
    \/ \E req \in 1..MaxRequests : AppendsError(req)
    \/ SpacesClose
    \/ SpacesCloseReturns

SpacesSpec == SpacesInit /\ [][SpacesNext]_vars

\* every goroutine of the client and its caller go on when they can
SpacesFairSpec == SpacesSpec /\ WF_vars(SpacesNext)

\* C32: until the run-created signal is raised, no request but the first
\* that was queued is made or sent to the API, and those queued meanwhile
\* are held; when the FirstRequest loop is left the signal was raised and
\* every held request is made.
C32_FirstRequestFirst ==
    /\ \A k \in 1..Len(spaces.api) :
          spaces.api[k].req # 1 => spaces.api[k].created
    /\ ~spaces.created =>
          /\ spaces.running \subseteq {1}
          /\ \A req \in 2..spaces.queued : spaces.done[req] = 0
          /\ spaces.pending = [i \in 1..(spaces.queued - 1) |-> i + 1]
    /\ spaces.loop # "first" =>
          /\ spaces.created
          /\ spaces.pending = << >>
          /\ \A req \in 1..spaces.queued :
                req \in spaces.running \/ spaces.done[req] = 1
    /\ spaces.caller = "returned" /\ spaces.runID # "" =>
          \A req \in 1..Len(spaces.plan) :
             \/ req \in spaces.failed
             \/ Cardinality({k \in 1..Len(spaces.api) : spaces.api[k].req = req}) = 1

\* two requests were held while the run was created, and all three have
\* been sent, the first before the signal
C32_Witness ==
    /\ Len(spaces.api) = 3
    /\ spaces.api[1] = [req |-> 1, created |-> FALSE]
    /\ spaces.loop # "first"
    /\ spaces.caller = "returned"
    /\ spaces.plan = <<"createRun", "postTask", "finishRun">>

\* C40: Close returns, and then every request that was queued has been
\* made once.
C40_CloseReturns ==
    <>( /\ spaces.caller = "returned"
        /\ \A req \in 1..Len(spaces.plan) : spaces.done[req] = 1 )

\* ================================================= fsCache.Put: the file queue
\* runtime.NumCPU() is at most MaxCPU, and a put has at most MaxFiles files
MaxCPU == 2
MaxFiles == 3

\* how the copy of a file into the cache ends
CopyResults == {"copied", "fails"}

FileLists == UNION {[1..n -> CopyResults] : n \in 0..MaxFiles}

\* Put: the error group, the queue and the digesters were made
PutQueueInit ==
    /\ EarlyIdle /\ ArgsIdle
    /\ SpacesIdle /\ DaemonIdle /\ LockIdle /\ CopyIdle /\ LedgerIdle
    /\ \E numDigesters \in 1..MaxCPU, files \in FileLists :
          putState = [ numDigesters |-> numDigesters, files |-> files,
                       sent |-> 0, fileQueue |-> << >>, closed |-> FALSE,
                       digesters |-> [d \in 1..numDigesters |-> "ranging"],
                       copied |-> {}, err |-> FALSE, pc |-> "sending" ]

PutQueueUnchanged ==
    UNCHANGED << earlyVars, argState, spaces, turbod, pidLock, copyState, ledger >>

\* fileQueue <- file: the send goes through when the queue has room
QueueFile ==
    /\ putState.pc = "sending"
    /\ putState.sent < Len(putState.files)
    /\ Len(putState.fileQueue) < putState.numDigesters
    /\ putState' = [putState EXCEPT
          !.sent = putState.sent + 1,
          !.fileQueue = Append(putState.fileQueue, putState.sent + 1)]
    /\ PutQueueUnchanged

\* close(fileQueue) after the last file, then g.Wait()
CloseQueue ==
    /\ putState.pc = "sending"
    /\ putState.sent = Len(putState.files)
    /\ putState' = [putState EXCEPT !.closed = TRUE, !.pc = "waiting"]
    /\ PutQueueUnchanged

\* a digester after a file: it returns the error of a copy that failed
AfterFile(result) == IF result = "fails" THEN "returned" ELSE "ranging"

\* a digester takes the next file of the queue and copies it
DigestFile(d) ==
    /\ d \in DOMAIN putState.digesters
    /\ putState.digesters[d] = "ranging"
    /\ putState.fileQueue # << >>
    /\ LET file == Head(putState.fileQueue)
           result == putState.files[file]
       IN putState' = [putState EXCEPT
              !.fileQueue = Tail(putState.fileQueue),
              !.digesters[d] = AfterFile(result),
              !.copied = IF result = "copied" THEN putState.copied \cup {file}
                         ELSE putState.copied,
              !.err = putState.err \/ result = "fails"]
    /\ PutQueueUnchanged

\* the range over the closed and empty queue ends: the digester returns nil
DigesterReturns(d) ==
    /\ d \in DOMAIN putState.digesters
    /\ putState.digesters[d] = "ranging"
    /\ putState.fileQueue = << >>
    /\ putState.closed
    /\ putState' = [putState EXCEPT !.digesters[d] = "returned"]
    /\ PutQueueUnchanged

\* g.Wait() returns when every digester returned; Put returns its error
WaitReturns ==
    /\ putState.pc = "waiting"
    /\ \A d \in DOMAIN putState.digesters : putState.digesters[d] = "returned"
    /\ putState' = [putState EXCEPT !.pc = "returned"]
    /\ PutQueueUnchanged

PutQueueNext ==
    \/ QueueFile
    \/ CloseQueue
    \/ \E d \in 1..MaxCPU : DigestFile(d)
    \/ \E d \in 1..MaxCPU : DigesterReturns(d)
    \/ WaitReturns

PutQueueSpec == PutQueueInit /\ [][PutQueueNext]_vars

\* Put and its digesters go on when they can
PutQueueFairSpec == PutQueueSpec /\ WF_vars(PutQueueNext)

\* C37: Put returns in the end, with an error when a copy failed.
C37_PutAlwaysReturns ==
    <>( /\ putState.pc = "returned"
        /\ (\E file \in DOMAIN putState.files : putState.files[file] = "fails")
              => putState.err )

\* ===================================================== fs.RecursiveCopy
\* What a path is: a file, a directory, a link to one of them, a link whose
\* target is missing, or nothing.
FromKinds == {"file", "dir", "linkToFile", "linkToDir", "brokenLink", "missing"}
EntryKinds == FromKinds \ {"missing"}

\* a source directory has at most MaxChildren entries
MaxChildren == 2

Directories == UNION {[1..n -> EntryKinds] : n \in 0..MaxChildren}

\* os.Lstat: the path itself
osLstat(kind) ==
    IF kind = "missing" THEN [err |-> TRUE, symlink |-> FALSE, dir |-> FALSE]
    ELSE [err |-> FALSE,
          symlink |-> kind \in {"linkToFile", "linkToDir", "brokenLink"},
          dir |-> kind = "dir"]

\* os.Stat: the path after its links; no info comes with an error
NoInfo == [nil |-> TRUE, dir |-> FALSE]
osStat(kind) ==
    IF kind \in {"missing", "brokenLink"} THEN NoInfo
    ELSE [nil |-> FALSE, dir |-> kind \in {"dir", "linkToDir"}]

\* Dirent.IsDirOrSymlinkToDir: a link whose target is missing is a PathError
IsDirOrSymlinkToDir(kind) ==
    IF kind = "brokenLink" THEN [err |-> TRUE, dir |-> FALSE]
    ELSE [err |-> FALSE, dir |-> kind \in {"dir", "linkToDir"}]

\* how CopyFile fails on the files of a walk: not at all, with an
\* *os.PathError, or with another error
CopyFileErrors == {"none", "PathError", "other"}

\* WalkMode, ErrorCallback: an *os.PathError skips the node, any other error
\* halts the walk
ErrorCallback(err) == IF err = "PathError" THEN "SkipNode" ELSE "Halt"

\* WalkMode over the entries of the root from the i-th on: an entry that is
\* a broken link is skipped, a directory is made, a file is copied; an error
\* of the callback goes to ErrorCallback
RECURSIVE WalkEntries(_, _, _, _)
WalkEntries(entries, fileError, i, done) ==
    IF i > Len(entries) THEN [result |-> "nil", copied |-> done]
    ELSE LET d == IsDirOrSymlinkToDir(entries[i])
         IN IF d.err THEN WalkEntries(entries, fileError, i + 1, done)
            ELSE IF d.dir \/ fileError = "none"
            THEN WalkEntries(entries, fileError, i + 1, done \cup {i})
            ELSE IF ErrorCallback(fileError) = "SkipNode"
            THEN WalkEntries(entries, fileError, i + 1, done)
            ELSE [result |-> "error", copied |-> done]

\* WalkMode(from, callback) for a root that is a directory or a link to
\* one: the callback makes the directory to for the root, and an
\* *os.PathError of os.MkdirAll skips the root and all below it; the entries
\* of a directory are walked, those behind a link are not
\* (FollowSymbolicLinks is false)
WalkMode(from, entries, writable, fileError) ==
    IF ~writable
    THEN [result |-> "nil", copied |-> {}]
    ELSE IF from = "linkToDir"
    THEN [result |-> "nil", copied |-> {}]
    ELSE WalkEntries(entries, fileError, 1, {})

\* RecursiveCopy(from, to, mode): from is of the kind given, entries is what
\* a directory holds, writable says whether to can be written, and
\* fileError how CopyFile fails on the files of a walk
RecursiveCopy(from, entries, writable, fileError) ==
    LET info == osLstat(from)
    IN IF info.err THEN [result |-> "error", copied |-> {}]
       ELSE IF info.symlink /\ osStat(from).nil
            THEN [result |-> "panic", copied |-> {}]
       ELSE IF info.dir \/ (info.symlink /\ osStat(from).dir)
            THEN WalkMode(from, entries, writable, fileError)
       ELSE [result |-> IF writable THEN "nil" ELSE "error", copied |-> {}]

CopyInit ==
    /\ EarlyIdle /\ ArgsIdle
    /\ SpacesIdle /\ DaemonIdle /\ LockIdle /\ LedgerIdle /\ PutIdle
    /\ \E from \in FromKinds, entries \in Directories, writable \in BOOLEAN,
          fileError \in CopyFileErrors :
          /\ entries # << >> => from \in {"dir", "linkToDir"}
          /\ fileError # "none" =>
                \E i \in DOMAIN entries : entries[i] \in {"file", "linkToFile"}
          /\ copyState = [ from |-> from, entries |-> entries,
                           writable |-> writable, fileError |-> fileError,
                           pc |-> "start", result |-> "none", copied |-> {} ]

\* RecursiveCopy is called and returns, or panics
CopyCalled ==
    /\ copyState.pc = "start"
    /\ LET r == RecursiveCopy(copyState.from, copyState.entries,
                              copyState.writable, copyState.fileError)
       IN copyState' = [copyState EXCEPT
              !.pc = "done", !.result = r.result, !.copied = r.copied]
    /\ UNCHANGED << earlyVars, argState, spaces, turbod, pidLock, ledger, putState >>

CopySpec == CopyInit /\ [][CopyCalled]_vars

\* C35: a copy whose source is a broken link neither panics nor returns an
\* error when the destination can be written, and the walk of a directory
\* whose files can be copied returns no error and copies every entry but
\* the broken links.
C35_BrokenLinkTolerated ==
    copyState # << >> /\ copyState.pc = "done" /\ copyState.writable =>
        /\ copyState.from = "brokenLink" => copyState.result = "nil"
        /\ copyState.from = "dir" /\ copyState.fileError = "none" =>
              /\ copyState.result = "nil"
              /\ \A i \in DOMAIN copyState.entries :
                    i \in copyState.copied <=> copyState.entries[i] # "brokenLink"

\* ============================================ the run state under its mutex
\* The visitors of the run add their events at the same time. Each of the
\* LedgerWorkers runs up to MaxTasks tasks, one after the other; for each it
\* calls RunState.Run and then the function Run returned, with the outcome.
LedgerWorkers == {1, 2}
MaxTasks == 2

WorkerPkg == <<"app", "lib">>
WorkerTask == <<"build", "test", "dev">>

\* the label of the k-th task of a worker
LabelOf(w, k) == <<WorkerPkg[w], WorkerTask[((k - 1) % 3) + 1]>>

NoEvents == [s \in TerminalStatuses |-> 0]

LedgerInit ==
    /\ EarlyIdle /\ ArgsIdle
    /\ SpacesIdle /\ DaemonIdle /\ LockIdle /\ CopyIdle /\ PutIdle
    /\ ledger = [ r |-> NewRunState, mu |-> 0, events |-> NoEvents,
                  visitor |-> [w \in LedgerWorkers |->
                      [pc |-> "idle", task |-> 1, status |-> "none",
                       snapshot |-> NewRunState]] ]

LedgerUnchanged ==
    UNCHANGED << earlyVars, argState, spaces, turbod, pidLock, copyState, putState >>

\* a mutex that locks whoever holds it
LockAlways(mu) == TRUE

\* r.mu.Lock() goes through when nobody holds the mutex
CanLock(mu) == mu = 0

\* the status the next call of add by the worker carries: building from
\* Run, then the outcome given to the function Run returned
NextStatuses(v) == IF v.status = "building" THEN TerminalStatuses ELSE {"building"}

\* add: r.mu.Lock()
AddLocks(w, status) ==
    /\ ledger.visitor[w].pc = "idle"
    /\ ledger.visitor[w].task <= MaxTasks
    /\ status \in NextStatuses(ledger.visitor[w])
    /\ CanLock(ledger.mu)
    /\ ledger' = [ledger EXCEPT
          !.mu = w,
          !.visitor[w].pc = "locked",
          !.visitor[w].status = status]
    /\ LedgerUnchanged

\* add: the state of the label and the counters are read
AddReads(w) ==
    /\ ledger.visitor[w].pc = "locked"
    /\ ledger' = [ledger EXCEPT
          !.visitor[w].pc = "read",
          !.visitor[w].snapshot = ledger.r]
    /\ LedgerUnchanged

\* add: the state and the counters are written, and the deferred
\* r.mu.Unlock() runs
AddWrites(w) ==
    /\ ledger.visitor[w].pc = "read"
    /\ LET v == ledger.visitor[w]
           terminal == v.status \in TerminalStatuses
       IN ledger' = [ledger EXCEPT
              !.r = add(v.snapshot, LabelOf(w, v.task), v.status),
              !.mu = 0,
              !.events = IF terminal
                         THEN [ledger.events EXCEPT ![v.status] = @ + 1]
                         ELSE ledger.events,
              !.visitor[w].pc = "idle",
              !.visitor[w].task = IF terminal THEN v.task + 1 ELSE v.task]
    /\ LedgerUnchanged

LedgerNext ==
    \/ \E w \in LedgerWorkers, status \in RunStatuses : AddLocks(w, status)
    \/ \E w \in LedgerWorkers : AddReads(w)
    \/ \E w \in LedgerWorkers : AddWrites(w)

LedgerSpec == LedgerInit /\ [][LedgerNext]_vars

\* C36: the attempted tasks are the successes, the cache hits and the
\* failures together, and each counter is the number of terminal events of
\* its kind that were added, however the workers interleave.
C36_CountersAddUp ==
    ledger # << >> =>
        /\ ledger.r.Attempted = ledger.r.Success + ledger.r.Cached + ledger.r.Failure
        /\ ledger.r.Success = ledger.events["built"]
        /\ ledger.r.Cached = ledger.events["cached"]
        /\ ledger.r.Failure = ledger.events["buildFailed"]
        /\ ledger.r.Attempted =
              ledger.events["built"] + ledger.events["cached"]
                 + ledger.events["buildFailed"]

\* the two workers have added terminal events of all three kinds, and one of
\* them holds the mutex for its next event
C36_Witness ==
    /\ ledger # << >>
    /\ ledger.r.Success >= 1 /\ ledger.r.Cached >= 1 /\ ledger.r.Failure >= 1
    /\ ledger.r.Attempted = 3
    /\ ledger.mu # 0
    /\ \A w \in LedgerWorkers : ledger.visitor[w].task >= 2

\* ===================================================== turbod: the idle timeout
\* d.timeout is IdleTimeout ticks of the clock, and at most MaxRpcs requests
\* reach the server
IdleTimeout == 2
MaxRpcs == 2

\* runTurboServer after go d.timeoutLoop(ctx) and go s.Serve(lis): the
\* server serves, the timer of timeoutLoop was started, and runTurboServer
\* is in its select
DaemonInit ==
    /\ EarlyIdle /\ ArgsIdle
    /\ SpacesIdle /\ LockIdle /\ CopyIdle /\ LedgerIdle /\ PutIdle
    /\ turbod = [ timer |-> 0, idle |-> 0, idleAtTimeout |-> 0,
                  loop |-> "select", timedOut |-> FALSE, ctx |-> "live",
                  arrived |-> 0, sending |-> 0, handling |-> 0,
                  server |-> "serving", errCh |-> "open",
                  main |-> "select", cause |-> "none", exitErr |-> "nil" ]

DaemonUnchanged ==
    UNCHANGED << earlyVars, argState, spaces, pidLock, copyState, ledger, putState >>

\* a tick of the clock: the timer of timeoutLoop runs on, and so does the
\* time since the last request
Tick ==
    /\ turbod.loop = "select"
    /\ turbod.timer < IdleTimeout
    /\ turbod' = [turbod EXCEPT !.timer = @ + 1, !.idle = @ + 1]
    /\ DaemonUnchanged

\* a request reaches the serving server: onRequest is at d.reqCh <- struct{}{}
RequestArrives ==
    /\ turbod.server = "serving"
    /\ turbod.arrived < MaxRpcs
    /\ turbod' = [turbod EXCEPT !.arrived = @ + 1, !.sending = @ + 1]
    /\ DaemonUnchanged

\* a timer that runs on over a request
TimerKept(timer) == timer

\* timeoutLoop, case <-d.reqCh: timeoutCh = time.After(d.timeout)
TimerAfterRequest(timer) == 0

\* timeoutLoop receives what onRequest sends; onRequest goes on to the handler
RequestNoted ==
    /\ turbod.loop = "select"
    /\ turbod.sending > 0
    /\ turbod' = [turbod EXCEPT
          !.sending = @ - 1, !.handling = @ + 1,
          !.timer = TimerAfterRequest(turbod.timer), !.idle = 0]
    /\ DaemonUnchanged

\* the handler of a request returns its response
HandlerReturns ==
    /\ turbod.handling > 0
    /\ turbod' = [turbod EXCEPT !.handling = @ - 1]
    /\ DaemonUnchanged

\* timeoutLoop, case <-timeoutCh: close(d.timedOutCh), break outer
TimerFires ==
    /\ turbod.loop = "select"
    /\ turbod.timer = IdleTimeout
    /\ turbod' = [turbod EXCEPT
          !.timedOut = TRUE, !.loop = "returned", !.idleAtTimeout = turbod.idle]
    /\ DaemonUnchanged

\* timeoutLoop, case <-ctx.Done(): break outer
LoopCancelled ==
    /\ turbod.loop = "select"
    /\ turbod.ctx = "cancelled"
    /\ turbod' = [turbod EXCEPT !.loop = "returned"]
    /\ DaemonUnchanged

\* the parent context is cancelled, or panicHandler calls cancel()
Cancel ==
    /\ turbod.ctx = "live"
    /\ turbod.main # "returned"
    /\ turbod' = [turbod EXCEPT !.ctx = "cancelled"]
    /\ DaemonUnchanged

\* s.Serve(lis) returns an error, which its goroutine sends on errCh
ServeFails ==
    /\ turbod.server = "serving"
    /\ turbod' = [turbod EXCEPT !.server = "failed", !.errCh = "error"]
    /\ DaemonUnchanged

\* the signal watcher closes: s.GracefulStop, registered with AddOnClose
WatcherCloses ==
    /\ turbod.server = "serving"
    /\ turbod.main = "select"
    /\ turbod' = [turbod EXCEPT !.server = "stopping"]
    /\ DaemonUnchanged

\* a server that was told to stop has stopped when no request is pending:
\* Serve returns nil and its goroutine closes errCh
ServerStops ==
    /\ turbod.server = "stopping"
    /\ turbod.sending = 0 /\ turbod.handling = 0
    /\ turbod' = [turbod EXCEPT !.server = "stopped", !.errCh = "closed"]
    /\ DaemonUnchanged

\* s.GracefulStop() on the server
GracefulStop(server) == IF server = "serving" THEN "stopping" ELSE server

\* runTurboServer, select, case err, ok := <-errCh
MainServeDone ==
    /\ turbod.main = "select"
    /\ turbod.errCh \in {"error", "closed"}
    /\ turbod' = [turbod EXCEPT
          !.main = "draining", !.cause = "serve",
          !.exitErr = IF turbod.errCh = "error" THEN "serve" ELSE "nil",
          !.errCh = "closed"]
    /\ DaemonUnchanged

\* runTurboServer, select, case <-d.timedOutCh
MainTimedOut ==
    /\ turbod.main = "select"
    /\ turbod.timedOut
    /\ turbod' = [turbod EXCEPT
          !.main = "stopping", !.cause = "timeout",
          !.exitErr = "inactivity",
          !.server = GracefulStop(turbod.server)]
    /\ DaemonUnchanged

\* runTurboServer, select, case <-ctx.Done()
MainCancelled ==
    /\ turbod.main = "select"
    /\ turbod.ctx = "cancelled"
    /\ turbod' = [turbod EXCEPT
          !.main = "stopping", !.cause = "context",
          !.server = GracefulStop(turbod.server)]
    /\ DaemonUnchanged

\* s.GracefulStop() returns when every pending request has finished
GracefulStopReturns ==
    /\ turbod.main = "stopping"
    /\ turbod.sending = 0 /\ turbod.handling = 0
    /\ turbod' = [turbod EXCEPT !.main = "draining"]
    /\ DaemonUnchanged

\* for range errCh ends when the channel is closed; runTurboServer returns
\* exitErr and the deferred cancel() runs
MainReturns ==
    /\ turbod.main = "draining"
    /\ turbod.errCh \in {"error", "closed"}
    /\ turbod' = [turbod EXCEPT
          !.main = "returned", !.errCh = "closed", !.ctx = "cancelled"]
    /\ DaemonUnchanged

\* what the daemon does by itself
DaemonSteps ==
    \/ Tick
    \/ RequestNoted
    \/ HandlerReturns
    \/ TimerFires
    \/ LoopCancelled
    \/ ServerStops
    \/ MainServeDone
    \/ MainTimedOut
    \/ MainCancelled
    \/ GracefulStopReturns
    \/ MainReturns

DaemonNext ==
    \/ DaemonSteps
    \/ RequestArrives
    \/ Cancel
    \/ ServeFails
    \/ WatcherCloses

DaemonSpec == DaemonInit /\ [][DaemonNext]_vars

\* the goroutines of the daemon go on when they can, and time passes
DaemonFairSpec == DaemonSpec /\ WF_vars(DaemonSteps)

\* C34: the exit error is the inactivity error only when the timeout has
\* fired, and it fired only after IdleTimeout ticks without a request; a
\* return through the cancelled context has no error and a return through
\* the error channel has the error of the server.
C34_InactivityOnlyWhenIdle ==
    turbod # << >> =>
        /\ turbod.timedOut => turbod.idleAtTimeout >= IdleTimeout
        /\ turbod.exitErr = "inactivity" =>
              turbod.timedOut /\ turbod.cause = "timeout"
        /\ turbod.cause = "context" => turbod.exitErr = "nil"
        /\ turbod.cause = "serve" => turbod.exitErr \in {"nil", "serve"}

\* the daemon has returned the inactivity error after a request that had
\* restarted the timer
C34_Witness ==
    /\ turbod # << >>
    /\ turbod.main = "returned"
    /\ turbod.exitErr = "inactivity"
    /\ turbod.arrived >= 1
    /\ turbod.sending = 0

\* C38: once the timeout has fired, runTurboServer returns and no request
\* is left blocked on the request channel.
C38_ReturnsAfterTimeout ==
    (turbod # << >> /\ turbod.timedOut)
        ~> (turbod.main = "returned" /\ turbod.sending = 0)

\* ============================================ turbod: the pid file and the socket
\* Two daemons are started for one repository: they share the pid file and
\* the socket file.
Daemons == {1, 2}

\* the closers of runTurboServer: func() { d.unlockPid(lockFile) } and
\* s.GracefulStop
UnlockCloser == "unlockPid"
StopCloser == "GracefulStop"

\* signalWatcher.AddOnClose: the closer is added after those the watcher has
AddOnClose(dm, closer) == [dm EXCEPT !.added = Append(@, closer)]

Reverse(list) == [i \in 1..Len(list) |-> list[Len(list) + 1 - i]]

\* the orders a closing watcher may run its closers in: as added, or the
\* last added first
CloserOrders(added) == {added, Reverse(added)}

\* the lists of closers a watcher can have
CloserLists ==
    {<< >>, <<UnlockCloser>>, <<UnlockCloser, StopCloser>>, <<StopCloser, UnlockCloser>>}

NotRunning ==
    [ pc |-> "start", holds |-> FALSE, acquired |-> FALSE, once |-> FALSE,
      unlocks |-> 0, listening |-> FALSE, unlockedAccess |-> FALSE,
      signalled |-> FALSE, added |-> << >>, closers |-> << >> ]

LockInit ==
    /\ EarlyIdle /\ ArgsIdle
    /\ SpacesIdle /\ DaemonIdle /\ CopyIdle /\ LedgerIdle /\ PutIdle
    /\ \E socket \in BOOLEAN :
          pidLock = [ socketFile |-> socket, daemon |-> [d \in Daemons |-> NotRunning] ]

LockUnchanged ==
    UNCHANGED << earlyVars, argState, spaces, turbod, copyState, ledger, putState >>

\* lockfile.TryLock: the pid file is taken unless a running daemon has it
TryLock(d) == \A e \in Daemons \ {d} : ~pidLock.daemon[e].holds

\* tryAcquirePidfileLock: with the lock the daemon goes on, without it
\* runTurboServer returns the error
AcquireLock(d) ==
    /\ pidLock.daemon[d].pc = "start"
    /\ pidLock' = [pidLock EXCEPT
          !.daemon[d].pc = IF TryLock(d) THEN "locked" ELSE "failed",
          !.daemon[d].holds = TryLock(d),
          !.daemon[d].acquired = TryLock(d)]
    /\ LockUnchanged

\* signalWatcher.AddOnClose(func() { d.unlockPid(lockFile) }), and the
\* deferred unlockPid: from here on a closing watcher releases the pid file
AddUnlockCloser(d) ==
    /\ pidLock.daemon[d].pc = "locked"
    /\ pidLock' = [pidLock EXCEPT
          !.daemon[d] = [AddOnClose(pidLock.daemon[d], UnlockCloser) EXCEPT !.pc = "guarded"]]
    /\ LockUnchanged

\* sockPath.Remove(): an error other than a missing file ends the daemon
RemoveSocket(d, ok) ==
    /\ pidLock.daemon[d].pc = "guarded"
    /\ pidLock' = [pidLock EXCEPT
          !.socketFile = IF ok THEN FALSE ELSE pidLock.socketFile,
          !.daemon[d].pc = IF ok THEN "removed" ELSE "stopped",
          !.daemon[d].unlockedAccess = @ \/ ~pidLock.daemon[d].holds]
    /\ LockUnchanged

\* net.Listen("unix", sockPath): an error ends the daemon
ListenSocket(d, ok) ==
    /\ pidLock.daemon[d].pc = "removed"
    /\ pidLock' = [pidLock EXCEPT
          !.socketFile = IF ok THEN TRUE ELSE pidLock.socketFile,
          !.daemon[d].pc = IF ok THEN "listened" ELSE "stopped",
          !.daemon[d].listening = ok,
          !.daemon[d].unlockedAccess = @ \/ ~pidLock.daemon[d].holds]
    /\ LockUnchanged

\* grpc.NewServer, signalWatcher.AddOnClose(s.GracefulStop), go s.Serve(lis):
\* the daemon serves
AddStopCloser(d) ==
    /\ pidLock.daemon[d].pc = "listened"
    /\ pidLock' = [pidLock EXCEPT
          !.daemon[d] = [AddOnClose(pidLock.daemon[d], StopCloser) EXCEPT !.pc = "serving"]]
    /\ LockUnchanged

\* unlockPid: d.cleanup.Do(lockFile.Unlock)
unlockPid(dm) ==
    IF dm.once THEN dm
    ELSE [dm EXCEPT !.once = TRUE, !.holds = FALSE, !.unlocks = @ + 1]

\* a signal closes the watcher of a daemon, wherever runTurboServer is: the
\* watcher is to run the closers it has by now; one added later is not run
SignalCloses(d, order) ==
    /\ pidLock.daemon[d].pc \notin {"failed", "returned"}
    /\ ~pidLock.daemon[d].signalled
    /\ order \in CloserOrders(pidLock.daemon[d].added)
    /\ pidLock' = [pidLock EXCEPT
          !.daemon[d].signalled = TRUE,
          !.daemon[d].closers = order]
    /\ LockUnchanged

\* s.GracefulStop closes the listener of the server, and a unix listener
\* that is closed removes the socket file of its path, whoever has made the
\* file that is there; a server stopped before has no listener left
CloseListener(lock, d) ==
    LET dm == lock.daemon[d]
    IN IF ~dm.listening
       THEN lock
       ELSE [lock EXCEPT
               !.socketFile = FALSE,
               !.daemon[d].listening = FALSE,
               !.daemon[d].unlockedAccess = @ \/ ~dm.holds,
               !.daemon[d].pc = IF dm.pc = "serving" THEN "stopped" ELSE dm.pc]

\* the watcher runs the next closer: unlockPid, or s.GracefulStop, after
\* which the server listens no more, the socket file is removed and Serve
\* returns
RunCloser(d) ==
    /\ pidLock.daemon[d].closers # << >>
    /\ LET dm == pidLock.daemon[d]
           rest == [dm EXCEPT !.closers = Tail(dm.closers)]
       IN pidLock' =
              IF Head(dm.closers) = UnlockCloser
              THEN [pidLock EXCEPT !.daemon[d] = unlockPid(rest)]
              ELSE CloseListener([pidLock EXCEPT !.daemon[d] = rest], d)
    /\ LockUnchanged

\* the select of runTurboServer ends the server by itself: Serve failed and
\* has closed the listener, or the timeout fired or the context was
\* cancelled and s.GracefulStop is called; the socket file is removed
MainStops(d) ==
    /\ pidLock.daemon[d].pc = "serving"
    /\ pidLock' = CloseListener(pidLock, d)
    /\ LockUnchanged

\* runTurboServer returns: the deferred d.unlockPid(lockFile) runs
ServerReturns(d) ==
    /\ pidLock.daemon[d].pc = "stopped"
    /\ pidLock' = [pidLock EXCEPT
          !.daemon[d] = [unlockPid(pidLock.daemon[d]) EXCEPT !.pc = "returned"]]
    /\ LockUnchanged

LockNext ==
    \/ \E d \in Daemons : AcquireLock(d)
    \/ \E d \in Daemons : AddUnlockCloser(d)
    \/ \E d \in Daemons, ok \in BOOLEAN : RemoveSocket(d, ok)
    \/ \E d \in Daemons, ok \in BOOLEAN : ListenSocket(d, ok)
    \/ \E d \in Daemons : AddStopCloser(d)
    \/ \E d \in Daemons, order \in CloserLists : SignalCloses(d, order)
    \/ \E d \in Daemons : RunCloser(d)
    \/ \E d \in Daemons : MainStops(d)
    \/ \E d \in Daemons : ServerReturns(d)

LockSpec == LockInit /\ [][LockNext]_vars

\* C39: one daemon at most holds the pid file; a daemon removes the socket
\* or listens on it only while it holds the pid file; a daemon that did not
\* get the pid file has not touched the socket; and a daemon that got it
\* and has returned has released it exactly once.
C39_LockGuardsSocket ==
    pidLock # << >> =>
        /\ Cardinality({d \in Daemons : pidLock.daemon[d].holds}) <= 1
        /\ \A d \in Daemons :
              LET dm == pidLock.daemon[d]
              IN /\ dm.listening => dm.holds
                 /\ ~dm.unlockedAccess
                 /\ dm.pc = "failed" => ~dm.acquired /\ ~dm.listening
                 /\ dm.unlocks <= 1
                 /\ dm.pc = "returned" => dm.unlocks = 1 /\ ~dm.holds

\* ================================================ the arguments after "--"
\* An argument is the sequence of its pieces, so that its prefix can be
\* looked at: "--", "--force", "-w", "build" and "test".
DashDash == <<"-", "-">>
ForceArg == <<"-", "-", "force">>
ShortArg == <<"-", "w">>
BuildArg == <<"build">>
TestArg == <<"test">>

RawArgs == {DashDash, ForceArg, ShortArg, BuildArg, TestArg}

\* a command line has at most MaxArgs arguments
MaxArgs == 3

RawCommandLines == UNION {[1..n -> RawArgs] : n \in 1..MaxArgs}

\* the index of the first "--" from the i-th argument on, or past the end
RECURSIVE IndexOfDashDash(_, _)
IndexOfDashDash(args, i) ==
    IF i > Len(args) \/ args[i] = DashDash THEN i ELSE IndexOfDashDash(args, i + 1)

\* parseRunArgs, the loop over the arguments up to "--": the flags that are
\* set, and passThroughArgs = args[argIndex+1:]
parseRunArgsUpToDashes(args) ==
    LET dashes == IndexOfDashDash(args, 1)
    IN [ forceExecution |->
             \E i \in 1..(dashes - 1) : HasPrefix(args[i], ForceArg),
         passThroughArgs |-> SubSeq(args, dashes + 1, Len(args)) ]

\* getTargetsFromArguments, the loop over the arguments up to "--": the
\* arguments that do not begin with "-"
RECURSIVE TargetArguments(_, _)
TargetArguments(args, i) ==
    IF i > Len(args) \/ args[i] = DashDash THEN << >>
    ELSE IF ~HasPrefix(args[i], <<"-">>)
         THEN <<args[i][1]>> \o TargetArguments(args, i + 1)
         ELSE TargetArguments(args, i + 1)

\* flags.Parse of Run, a flag set in which no flag is defined: the first
\* argument is an error when it is a flag, "--" ends the flags, and anything
\* else ends the parsing
flagsParseArgs(args) ==
    [ err |-> /\ args # << >>
              /\ HasPrefix(args[1], <<"-">>)
              /\ args[1] # DashDash ]

\* the tasks of the run: the targets in every package, and what they
\* depend on
TasksOfRun(taskNames) ==
    LET tasks == CHOOSE f \in EngineTasks(PipelineTopo) : TRUE
    IN Prepare(tasks, PackageTaskDeps(PipelineTopo), InternalDeps, PipelineTopo,
               AllScripts, Pkgs, taskNames).nodes

\* every task is given the arguments
PassedToAll(runTargets, task) == TRUE

\* exec: the arguments are for a task whose name is one of the targets
PassedTo(runTargets, task) == \E target \in runTargets : target = task

\* exec: argsactual, the arguments of the command of a task
argsactual(runTargets, passThroughArgs, task) ==
    << <<"run">>, <<task>> >>
        \o (IF PassedTo(runTargets, task) THEN passThroughArgs ELSE << >>)

ArgsInit ==
    /\ EarlyIdle
    /\ SpacesIdle /\ DaemonIdle /\ LockIdle /\ CopyIdle /\ LedgerIdle /\ PutIdle
    /\ \E args \in RawCommandLines :
          argState = [ args |-> args, pc |-> "start", forceExecution |-> FALSE,
                       passThroughArgs |-> << >>, targets |-> {}, tasks |-> {},
                       commands |-> [id \in {} |-> << >>] ]

ArgsUnchanged == UNCHANGED << earlyVars, spaces, turbod, pidLock, copyState, ledger, putState >>

\* Run: flags.Parse, parseRunArgs and getTargetsFromArguments, then the task
\* graph; after an error of one of them Run returns 1 and nothing is set
ParseArgs ==
    /\ argState.pc = "start"
    /\ LET o == parseRunArgsUpToDashes(argState.args)
           t == getTargetsFromArguments(TargetArguments(argState.args, 1), PipelineTopo)
       IN IF flagsParseArgs(argState.args).err \/ t.err
          THEN argState' = [argState EXCEPT !.pc = "failed"]
          ELSE argState' = [argState EXCEPT
                  !.pc = "running",
                  !.forceExecution = o.forceExecution,
                  !.passThroughArgs = o.passThroughArgs,
                  !.targets = t.targets,
                  !.tasks = TasksOfRun(t.targets)]
    /\ ArgsUnchanged

\* exec of a task of the run: its command is put together
ExecCommand(id) ==
    /\ argState.pc = "running"
    /\ id \in argState.tasks
    /\ id \notin DOMAIN argState.commands
    /\ argState' = [argState EXCEPT
          !.commands = (id :> argsactual(argState.targets, argState.passThroughArgs, id[2]))
                          @@ argState.commands]
    /\ ArgsUnchanged

ArgsNext ==
    \/ ParseArgs
    \/ \E id \in TaskIds : ExecCommand(id)

ArgsSpec == ArgsInit /\ [][ArgsNext]_vars

\* the arguments that come before the first "--", and those after it
BeforeDashes(args) ==
    {i \in 1..Len(args) : \A j \in 1..i : args[j] # DashDash}
AfterDashes(args) ==
    LET rest == (1..Len(args)) \ BeforeDashes(args)
    IN IF rest = {} THEN << >>
       ELSE [k \in 1..(Cardinality(rest) - 1) |-> args[k + Len(args) - Cardinality(rest) + 1]]

\* C33: a flag is set and a target is named only by an argument before the
\* "--"; the command of a task whose name is a target ends with the
\* arguments after the "--", and the command of any other task of the run
\* has none of them.
C33_PassThroughArgs ==
    argState # << >> /\ argState.pc # "start" =>
        /\ argState.forceExecution =>
              \E i \in BeforeDashes(argState.args) : argState.args[i] = ForceArg
        /\ \A target \in argState.targets :
              \E i \in BeforeDashes(argState.args) : argState.args[i] = <<target>>
        /\ \A id \in DOMAIN argState.commands :
              argState.commands[id] =
                 IF id[2] \in argState.targets
                 THEN << <<"run">>, <<id[2]>> >> \o AfterDashes(argState.args)
                 ELSE << <<"run">>, <<id[2]>> >>

\* "test -- --force": test is run with --force as its argument, build, which
\* test depends on, without it, and the run is not forced
C33_Witness ==
    /\ argState # << >>
    /\ argState.args = <<TestArg, DashDash, ForceArg>>
    /\ ~argState.forceExecution
    /\ argState.targets = {"test"}
    /\ <<"app", "test">> \in DOMAIN argState.commands
    /\ <<"app", "build">> \in DOMAIN argState.commands
    /\ argState.commands[<<"app", "test">>] = << <<"run">>, <<"test">>, ForceArg >>
    /\ argState.commands[<<"app", "build">>] = << <<"run">>, <<"build">> >>

====
